---------------------------- MODULE Spec2Model ----------------------------
(***************************************************************************)
(* A state-machine model of rig_tycoon: the turn engine of Sim             *)
(* (prepare_turn / resolve_turn), the sealed-bid auction, the monthly      *)
(* cash settlement, the player's fleet and loan commands, the save file    *)
(* and the two turn drivers (Sim.run and the command loop of cli.main).    *)
(*                                                                         *)
(* Conventions of the translation                                          *)
(*  - Money is counted in thousands of dollars: cash_musd = 55.0 is 55000. *)
(*    Day rates are in $k/day as in the source.  Fractions such as         *)
(*    reputation, aggressiveness, oil_factor are kept in hundredths.       *)
(*    Oil prices are in cents, steel prices in dollars.  Floating-point    *)
(*    rounding error is not modelled: arithmetic is exact fixed-point.     *)
(*  - Members of the enumerations RigType, RigState, Region, ContractType, *)
(*    RigClassRequired and PositioningRequired are written as strings      *)
(*    holding the member's name (RigType.SEMI is "SEMI").                  *)
(*    Where the source compares a member of one                            *)
(*    enumeration with a member of another, the model compares them with   *)
(*    their enumeration attached (RigTypeMember, RigClassMember).          *)
(*  - Optional[int] fields hold NoId for None; Optional[Region] holds      *)
(*    NoRegion for None.                                                   *)
(*  - random.Random is a deterministic stream: its state is a number, one  *)
(*    library draw advances it once and yields u in 0..255, read as the    *)
(*    fraction u/256.  gauss and triangular keep their support but not     *)
(*    their density.                                                       *)
(***************************************************************************)
EXTENDS Integers, Sequences, FiniteSets, TLC

VARIABLES
    sim,          \* the Sim object: every field Sim.__init__ / Sim.load sets
    pc,           \* position of the turn driver: "start", "loop", "done", "fault"
    driver,       \* which driver runs this process: "run" (Sim.run) or "cli" (cli.main)
    player_bids,  \* cli.main's local list of recorded bids
    savefile,     \* the save file most recently written (a dict), or NoFile
    last,         \* result of the last operation: what was called, the (success, message) flag
    calls,        \* history: the prepare_turn / resolve_turn calls of this process, in order
    ncmd,         \* player commands typed so far
    nload,        \* processes started with --load so far
    issued,       \* history: every rig id handed out in this game, in order of issue
    awarded,      \* history: every award record of this game, in order
    scrapped,     \* history: the ids of the rigs scrap_rig removed in this game
    twin,         \* save/load harness: the Sim restored from a save, run beside sim
    au,           \* auction harness: inputs and result of one scoring
    choice        \* harnesses of one call (choose_bid, validate_bid, load): inputs, result

vars ==
    <<sim, pc, driver, player_bids, savefile, last, calls, ncmd, nload, issued, awarded,
      scrapped, twin, au, choice>>

-----------------------------------------------------------------------------
(* Bounds of the model *)

\* turns a driver may play before the model stops it
MaxMonth == 2
\* player commands (bid, stack, mobilize, buy, scrap, loan, repay, save) per process
MaxCmds == 3

\* processes started with --load
MaxLoads == 1

\* resolve_turn calls of a caller that is not one of the two drivers
RtMaxResolves == 2

\* months the two markets are stepped on their own: past the 36 prices of the buffers
MtMaxMonths == 38
\* calls of the loan desk on its own
LnMaxCmds == 4

\* bid commands typed before the auction of a tender
AuMaxBids == 2

\* calls of choose_bid made one after the other on the same arguments
CbMaxCalls == 2

\* seeds tried for SimConfig.seed (cli --seed)
Seeds == {158}

-----------------------------------------------------------------------------
(* Small helpers *)

NoId == 0
NoRegion == "None"
NoFile == [exists |-> FALSE]

Max2(a, b) == IF a >= b THEN a ELSE b
Min2(a, b) == IF a <= b THEN a ELSE b
Clamp(x, lo, hi) == Max2(lo, Min2(hi, x))
Abs(x) == IF x < 0 THEN -x ELSE x

\* float("nan"), which float(parts[1]) of the loan and repay commands yields for the
\* word nan: a value outside the amounts, for which every comparison is false and
\* which every sum and difference hands on
NaN == -999999999
IsNaN(x) == x = NaN
FloatLe(a, b) == ~IsNaN(a) /\ ~IsNaN(b) /\ a <= b
FloatLt(a, b) == ~IsNaN(a) /\ ~IsNaN(b) /\ a < b
FloatGt(a, b) == ~IsNaN(a) /\ ~IsNaN(b) /\ a > b
FloatGe(a, b) == ~IsNaN(a) /\ ~IsNaN(b) /\ a >= b
FloatEq(a, b) == ~IsNaN(a) /\ ~IsNaN(b) /\ a = b
FloatAdd(a, b) == IF IsNaN(a) \/ IsNaN(b) THEN NaN ELSE a + b
FloatSub(a, b) == IF IsNaN(a) \/ IsNaN(b) THEN NaN ELSE a - b
\* Python's min(a, b) and max(a, b): a unless b compares smaller (greater)
PyMin(a, b) == IF FloatLt(b, a) THEN b ELSE a
PyMax(a, b) == IF FloatGt(b, a) THEN b ELSE a

\* Python's round(): n/d to the nearest integer, halves to the even one (d > 0)
RoundDiv(n, d) ==
    LET q == n \div d
        r == n % d
    IN  IF 2 * r < d THEN q
        ELSE IF 2 * r > d THEN q + 1
        ELSE IF q % 2 = 0 THEN q ELSE q + 1

\* Python's int(): truncation toward zero of n/d (d > 0)
TruncDiv(n, d) == IF n >= 0 THEN n \div d ELSE -((-n) \div d)

\* dict.get(key, default)
Get(d, k, dflt) == IF k \in DOMAIN d THEN d[k] ELSE dflt

\* dict.update / {**f, **g} restricted to disjoint keys
Merge(f, g) == [k \in (DOMAIN f) \cup (DOMAIN g) |-> IF k \in DOMAIN f THEN f[k] ELSE g[k]]
EmptyDict == [k \in {} |-> 0]
OptKey(cond, k, v) == IF cond THEN [x \in {k} |-> v] ELSE EmptyDict

RECURSIVE SumSeq(_)
SumSeq(s) == IF s = <<>> THEN 0 ELSE Head(s) + SumSeq(Tail(s))

SeqToSet(s) == {s[i] : i \in 1..Len(s)}

-----------------------------------------------------------------------------
(* random.Random *)

\* random.Random(seed): the state a seed gives
RngSeed(seed) == 1 + (seed % 256)
\* the state after one draw
RngNext(s) == (s * 3) % 257
\* the value of the draw that took the stream to state s: rng.random() = RngU(s)/256
RngU(s) == s - 1

\* rng.choice(seq) after the draw that led to state s
Choice(seq, s) == seq[1 + ((RngU(s) * Len(seq)) \div 256)]
\* rng.randint(a, b)
RandInt(a, b, s) == a + ((RngU(s) * (b - a + 1)) \div 256)
\* rng.uniform(a, b), in the unit of a and b
Uniform(a, b, s) == a + ((RngU(s) * (b - a)) \div 256)


-----------------------------------------------------------------------------
(* models.py: Rig, Company, RigForSale *)

RigTypes == <<"JACKUP", "SEMI", "DRILLSHIP">>
Regions == <<"NORTH_SEA", "GOM", "BRAZIL", "WEST_AFRICA", "SE_ASIA", "AUSTRALIA">>
RigStates == {"ACTIVE", "WARM", "COLD", "SCRAP"}

\* Rig(...) with the dataclass defaults for the fields not given
Rig(id, rig_type, build_year, condition, region, state, location_id, model_id) ==
    [id |-> id, rig_type |-> rig_type, build_year |-> build_year,
     condition |-> condition, region |-> region, state |-> state,
     on_contract_months_left |-> 0, contract_dayrate |-> 0, contract_id |-> NoId,
     location_id |-> location_id, model_id |-> model_id, company_id |-> NoId,
     transit_months_left |-> 0, target_region |-> NoRegion]

\* Rig.is_available
IsAvailable(r) ==
    r.state = "ACTIVE" /\ r.on_contract_months_left = 0 /\ r.transit_months_left = 0

\* Rig.opex_per_day_k
OpexPerDayK(r, current_year) ==
    LET base == IF r.rig_type = "JACKUP" THEN 55 ELSE 95
        age_years == Max2(0, current_year - r.build_year)
        age_penalty == Max2(0, age_years - 10) * 2
        condition_penalty == Max2(0, 70 - r.condition) \div 5
    IN  base + age_penalty + condition_penalty

\* Rig.stacking_cost_per_month_k
StackingCostPerMonthK(r) ==
    IF r.state = "ACTIVE" THEN (IF r.rig_type = "JACKUP" THEN 850 ELSE 1400)
    ELSE IF r.state = "WARM" THEN (IF r.rig_type = "JACKUP" THEN 450 ELSE 750)
    ELSE IF r.state = "COLD" THEN 180
    ELSE 0

\* Rig.to_dict: zero / None fields are left out of the dict
RigToDict(r) ==
    Merge([id |-> r.id, rig_type |-> r.rig_type, build_year |-> r.build_year,
           condition |-> r.condition, region |-> r.region, state |-> r.state],
    Merge(OptKey(r.model_id # NoId, "model_id", r.model_id),
    Merge(OptKey(r.transit_months_left > 0, "transit_months_left", r.transit_months_left),
    Merge(OptKey(r.target_region # NoRegion, "target_region", r.target_region),
    Merge(OptKey(r.on_contract_months_left > 0, "on_contract_months_left", r.on_contract_months_left),
    Merge(OptKey(r.contract_dayrate > 0, "contract_dayrate", r.contract_dayrate),
    Merge(OptKey(r.contract_id # NoId, "contract_id", r.contract_id),
    Merge(OptKey(r.location_id # NoId, "location_id", r.location_id),
          OptKey(r.company_id # NoId, "company_id", r.company_id)))))))))

\* Rig.from_dict
RigFromDict(d) ==
    [id |-> d["id"], rig_type |-> d["rig_type"], build_year |-> d["build_year"],
     condition |-> d["condition"], region |-> d["region"], state |-> d["state"],
     on_contract_months_left |-> Get(d, "on_contract_months_left", 0),
     contract_dayrate |-> Get(d, "contract_dayrate", 0),
     contract_id |-> Get(d, "contract_id", NoId),
     location_id |-> Get(d, "location_id", NoId),
     model_id |-> Get(d, "model_id", NoId),
     company_id |-> Get(d, "company_id", NoId),
     transit_months_left |-> Get(d, "transit_months_left", 0),
     target_region |-> Get(d, "target_region", NoRegion)]

\* Company.to_dict: the roster is written as back-references
CompanyToDict(c) ==
    [id |-> c.id, name |-> c.name, cash_musd |-> c.cash_musd,
     reputation |-> c.reputation, debt_musd |-> c.debt_musd,
     rigs |-> [i \in 1..Len(c.rigs) |->
                 [id |-> c.rigs[i].id, location_id |-> c.rigs[i].location_id]]]

\* the rigs of rig_list a list of back-references names, in the order of the references;
\* a reference to an id that is not in rig_list is skipped
RECURSIVE LinkRigs(_, _)
LinkRigs(refs, rig_list) ==
    IF refs = <<>> THEN <<>>
    ELSE LET rid == Head(refs).id
             hits == {i \in 1..Len(rig_list) : rig_list[i].id = rid}
         IN  IF hits = {} THEN LinkRigs(Tail(refs), rig_list)
             \* rig_map = {r.id: r for r in all_rigs_list}: the last rig of an id is kept
             ELSE <<rig_list[CHOOSE i \in hits : \A j \in hits : j <= i]>>
                  \o LinkRigs(Tail(refs), rig_list)

\* Company.from_dict
CompanyFromDict(d, rig_list) ==
    [id |-> d.id, name |-> d.name, cash_musd |-> d.cash_musd,
     reputation |-> d.reputation, debt_musd |-> d.debt_musd,
     rigs |-> LinkRigs(d.rigs, rig_list)]

\* RigForSale.to_dict / RigForSale.from_dict
RigForSaleToDict(fs) == [rig |-> RigToDict(fs.rig), price_musd |-> fs.price_musd]
RigForSaleFromDict(d) == [rig |-> RigFromDict(d.rig), price_musd |-> d.price_musd]

-----------------------------------------------------------------------------
(* market.py: OilMarket, SteelMarket *)

\* deque(maxlen=36).append
HistAppend(h, x) == IF Len(h) >= 36 THEN Tail(h) \o <<x>> ELSE Append(h, x)

\* rng.gauss(0, sd): a draw among whole and half multiples of sd
Gauss(sd, s) == (sd * Choice(<<-4, -3, -2, -2, -1, -1, 0, 0, 0, 0, 1, 1, 2, 2, 3, 4>>, s)) \div 2

\* OilMarket(rng=...)
OilMarketInit ==
    [month |-> 0, oil_price |-> 7000, mean_price |-> 7000, reversion |-> 8,
     shock_sd |-> 500, lag_months |-> 9, oil_history |-> <<>>,
     demand_north_sea |-> 200, demand_gom |-> 250]

\* the price lag_months back, or the current price while the history is shorter
LagPrice(history, lag_months, price) ==
    IF Len(history) >= lag_months THEN history[Len(history) - lag_months + 1] ELSE price

\* the demand multiplier OilMarket.step_month computes from the lagged price, in hundredths
OilMult(lag_price) == Clamp(TruncDiv(lag_price - 3000, 50), 40, 180)

\* OilMarket.step_month; s is the stream state after the gauss draw
OilStepMonth(m, s) ==
    LET shock == Gauss(m.shock_sd, s)
        p1 == m.oil_price + TruncDiv(m.reversion * (m.mean_price - m.oil_price), 100) + shock
        p2 == Max2(2500, Min2(14000, p1))
        h2 == HistAppend(m.oil_history, p2)
        mult == OilMult(LagPrice(h2, m.lag_months, p2))
    IN  [m EXCEPT !.month = m.month + 1, !.oil_price = p2, !.oil_history = h2,
                  !.demand_north_sea = (150 * mult) \div 100,
                  !.demand_gom = (220 * mult) \div 100]

\* OilMarket.oil_factor, in hundredths: the price relative to its mean
OilFactor(m) == (m.oil_price * 100) \div m.mean_price

\* OilMarket.demand_factor, in hundredths: the multiplier of the lagged price
DemandFactor(m) == OilMult(LagPrice(m.oil_history, m.lag_months, m.oil_price))

\* OilMarket.to_dict / from_dict copy every field kept here
OilToDict(m) == m
OilFromDict(d) ==
    [month |-> d.month, oil_price |-> d.oil_price, mean_price |-> d.mean_price,
     reversion |-> d.reversion, shock_sd |-> d.shock_sd, lag_months |-> d.lag_months,
     oil_history |-> d.oil_history,
     demand_north_sea |-> d.demand_north_sea, demand_gom |-> d.demand_gom]

\* SteelMarket(rng=...)
SteelMarketInit ==
    [month |-> 0, steel_price |-> 800, mean_price |-> 800, reversion |-> 10,
     shock_sd |-> 60, floor |-> 350, cap |-> 1800, lag_months |-> 6,
     steel_history |-> <<>>, demand_global |-> 200]

\* SteelMarket.step_month
SteelStepMonth(m, s) ==
    LET shock == Gauss(m.shock_sd, s)
        p1 == m.steel_price + TruncDiv(m.reversion * (m.mean_price - m.steel_price), 100) + shock
        p2 == Max2(m.floor, Min2(m.cap, p1))
        h2 == HistAppend(m.steel_history, p2)
        lag_price == LagPrice(h2, m.lag_months, p2)
        mult == Max2(50, Min2(180, TruncDiv((lag_price - 450) * 100, 500)))
    IN  [m EXCEPT !.month = m.month + 1, !.steel_price = p2, !.steel_history = h2,
                  !.demand_global = 2 * mult]

SteelToDict(m) == m
SteelFromDict(d) ==
    [month |-> d.month, steel_price |-> d.steel_price, mean_price |-> d.mean_price,
     reversion |-> d.reversion, shock_sd |-> d.shock_sd, floor |-> d.floor, cap |-> d.cap,
     lag_months |-> d.lag_months, steel_history |-> d.steel_history,
     demand_global |-> d.demand_global]

-----------------------------------------------------------------------------
(* contracts.py: ContractGenerator *)

\* ContractGenConfig(): the two fields ContractGenerator.to_dict writes
ContractGenInit == [base_tenders_per_region |-> 50, noise_max |-> 260]

\* ContractGenerator.to_dict / from_dict
ContractGenToDict(g) == [config |-> g]
ContractGenFromDict(d) ==
    IF "config" \in DOMAIN d
    THEN [base_tenders_per_region |->
              Get(d.config, "base_tenders_per_region", ContractGenInit.base_tenders_per_region),
          noise_max |-> Get(d.config, "noise_max", ContractGenInit.noise_max)]
    ELSE ContractGenInit

\* rig_matches_class
RigMatchesClass(rig_type, req_class) ==
    IF req_class = "JACKUP" THEN rig_type = "JACKUP"
    ELSE IF req_class = "SEMI" THEN rig_type = "SEMI"
    ELSE IF req_class = "DRILLSHIP" THEN rig_type = "DRILLSHIP"
    ELSE IF req_class = "SEMI_OR_DRILLSHIP" THEN rig_type \in {"SEMI", "DRILLSHIP"}
    ELSE FALSE

\* add_months on a first-of-month date
AddMonths(d, months) ==
    [year |-> d.year + (d.month - 1 + months) \div 12,
     month |-> ((d.month - 1 + months) % 12) + 1]

\* ContractGenerator._pick_weighted(type_weights): r = random() against the running sum
PickWeighted(s) ==
    IF RngU(s) * 100 <= 25 * 256 THEN "WORKOVER"
    ELSE IF RngU(s) * 100 <= 75 * 256 THEN "DEVELOPMENT"
    ELSE "EXPLORATION"

\* ContractGenerator._pick_harsh: random() < harsh_prob_by_region.get(region, 0.10)
PickHarsh(region, s) ==
    LET p == IF region = "NORTH_SEA" THEN 30 ELSE IF region = "GOM" THEN 0 ELSE 10
    IN  RngU(s) * 100 < p * 256

\* ContractGenerator._water_depth: int(triangular(a, c, b)), a value of [a, c]
WaterDepth(ctype, s) ==
    IF ctype = "WORKOVER" THEN Uniform(20, 150, s)
    ELSE IF ctype = "DEVELOPMENT" THEN Uniform(30, 800, s)
    ELSE Uniform(80, 2500, s)

\* a faulty variant: the jack-up class reaches down to 500 m
RigClassAndPositioningDeepJackup(water_depth_m, harsh, s0) ==
    LET rig_class == IF water_depth_m <= 500 THEN "JACKUP"
                     ELSE IF water_depth_m <= 1200 THEN "SEMI_OR_DRILLSHIP"
                     ELSE "DRILLSHIP"
        s1 == IF water_depth_m <= 120 THEN s0 ELSE RngNext(s0)
        dp_chance == IF water_depth_m <= 500 THEN 15 + (IF harsh THEN 25 ELSE 0)
                     ELSE 65 + (IF harsh THEN 20 ELSE 0)
        positioning == IF water_depth_m <= 120 THEN "ANY"
                       ELSE IF RngU(s1) * 100 < dp_chance * 256 THEN "DP_REQUIRED"
                       ELSE "MORED_OK"
    IN  [rng |-> s1, rig_class |-> rig_class, positioning |-> positioning]

\* ContractGenerator._rig_class_and_positioning; s0 is the stream before the call.
\* No draw is made when water_depth_m <= 120.
RigClassAndPositioning(water_depth_m, harsh, s0) ==
    LET rig_class == IF water_depth_m <= 120 THEN "JACKUP"
                     ELSE IF water_depth_m <= 500 THEN "SEMI"
                     ELSE IF water_depth_m <= 1200 THEN "SEMI_OR_DRILLSHIP"
                     ELSE "DRILLSHIP"
        s1 == IF water_depth_m <= 120 THEN s0 ELSE RngNext(s0)
        dp_chance == IF water_depth_m <= 500 THEN 15 + (IF harsh THEN 25 ELSE 0)
                     ELSE 65 + (IF harsh THEN 20 ELSE 0)
        positioning == IF water_depth_m <= 120 THEN "ANY"
                       ELSE IF RngU(s1) * 100 < dp_chance * 256 THEN "DP_REQUIRED"
                       ELSE "MORED_OK"
    IN  [rng |-> s1, rig_class |-> rig_class,
         positioning |-> IF rig_class = "JACKUP" /\ positioning = "DP_REQUIRED"
                         THEN "ANY" ELSE positioning]

DurationChoices(ctype) ==
    IF ctype = "WORKOVER" THEN <<1, 2, 3, 4>>
    ELSE IF ctype = "DEVELOPMENT" THEN <<6, 9, 12, 18, 24>>
    ELSE <<3, 6, 9, 12>>

\* ContractGenerator._duration_months; the second draw is made only for harsh non-workover work
DurationMonths(ctype, harsh, s0) ==
    LET s1 == RngNext(s0)
        months == Choice(DurationChoices(ctype), s1)
        again == harsh /\ ctype # "WORKOVER"
        s2 == IF again THEN RngNext(s1) ELSE s1
    IN  [rng |-> s2,
         months |-> IF again /\ RngU(s2) * 100 < 30 * 256 THEN months + 3 ELSE months]

\* ContractGenerator._start_date: as_of_date is always a first of month here, so both
\* bases are the same date; the second draw is made either way
StartDate(as_of_date, s0) ==
    LET s1 == RngNext(s0)
        lead_months == Choice(<<0, 0, 1, 1, 2, 3>>, s1)
        s2 == RngNext(s1)
    IN  [rng |-> s2, date |-> AddMonths(as_of_date, lead_months)]

BaseDayrateK(rig_class) ==
    IF rig_class = "JACKUP" THEN 120
    ELSE IF rig_class = "SEMI" THEN 240
    ELSE IF rig_class = "DRILLSHIP" THEN 300
    ELSE 270

\* a faulty variant: the ceiling is not lifted to 40
DayrateRangeKNoLift(rig_class, positioning, harsh, oil_factor, contract_type) ==
    LET m1 == oil_factor
        m2 == IF harsh THEN (m1 * 115) \div 100 ELSE m1
        m3 == IF positioning = "DP_REQUIRED" THEN (m2 * 120) \div 100 ELSE m2
        m4 == IF contract_type = "EXPLORATION" THEN (m3 * 105) \div 100 ELSE m3
        max_k == (BaseDayrateK(rig_class) * m4) \div 100
        floor_ratio == IF contract_type = "EXPLORATION" THEN 70 ELSE 75
        min_k == Max2(30, (max_k * floor_ratio) \div 100)
    IN  [min_k |-> IF min_k >= max_k THEN max_k - 5 ELSE min_k, max_k |-> max_k]

\* ContractGenerator._dayrate_range_k; oil_factor in hundredths
DayrateRangeK(rig_class, positioning, harsh, oil_factor, contract_type) ==
    LET m1 == oil_factor
        m2 == IF harsh THEN (m1 * 115) \div 100 ELSE m1
        m3 == IF positioning = "DP_REQUIRED" THEN (m2 * 120) \div 100 ELSE m2
        m4 == IF contract_type = "EXPLORATION" THEN (m3 * 105) \div 100 ELSE m3
        max_k == Max2(40, (BaseDayrateK(rig_class) * m4) \div 100)
        floor_ratio == IF contract_type = "EXPLORATION" THEN 70 ELSE 75
        min_k == Max2(30, (max_k * floor_ratio) \div 100)
    IN  [min_k |-> IF min_k >= max_k THEN max_k - 5 ELSE min_k, max_k |-> max_k]

\* ContractGenerator._early_termination_penalty_k
EarlyTerminationPenaltyK(dayrate_k_max, duration_months, contract_type, harsh) ==
    LET pm0 == IF contract_type = "WORKOVER" THEN 1
               ELSE IF contract_type = "EXPLORATION" THEN 2 ELSE 3
        pm1 == IF harsh THEN pm0 + 1 ELSE pm0
        penalty_months == Min2(pm1, Max2(1, duration_months))
    IN  Max2(dayrate_k_max * 30 * penalty_months, 1500)

MinCondition(ctype) ==
    IF ctype = "EXPLORATION" THEN 75 ELSE IF ctype = "DEVELOPMENT" THEN 65 ELSE 50

\* one pass of the loop body of ContractGenerator.generate_tick
GenerateTender(s0, cid, regions_list, as_of_date, oil_factor) ==
    LET s1 == RngNext(s0)
        region == Choice(regions_list, s1)
        s2 == RngNext(s1)
        ctype == PickWeighted(s2)
        s3 == RngNext(s2)
        harsh == PickHarsh(region, s3)
        s4 == RngNext(s3)
        water_depth_m == WaterDepth(ctype, s4)
        Tender(cp, du, st, dr) ==
            [rng |-> st.rng,
             tender |->
               [id |-> cid,
                spec |-> [contract_type |-> ctype, region |-> region, start_date |-> st.date,
                          months |-> du.months, water_depth_m |-> water_depth_m,
                          harsh |-> harsh,
                          rig_type |-> cp.rig_class, positioning_required |-> cp.positioning,
                          min_condition |-> MinCondition(ctype),
                          min_dayrate |-> dr.min_k, max_dayrate |-> dr.max_k,
                          early_termination_penalty_k |->
                              EarlyTerminationPenaltyK(dr.max_k, du.months, ctype, harsh)]]]
        Timed(cp, du) ==
            Tender(cp, du, StartDate(as_of_date, du.rng),
                   DayrateRangeK(cp.rig_class, cp.positioning, harsh, oil_factor, ctype))
        Classed(cp) == Timed(cp, DurationMonths(ctype, harsh, cp.rng))
    IN  Classed(RigClassAndPositioning(water_depth_m, harsh, s4))

\* a faulty variant: every tender of a tick gets the first id and the counter stays
RECURSIVE GenerateTendersOneId(_, _, _, _, _, _)
GenerateTendersOneId(n, s0, cid, regions_list, as_of_date, oil_factor) ==
    IF n = 0 THEN [rng |-> s0, out |-> <<>>, cid |-> cid]
    ELSE LET Join(g, rest) ==
                 [rng |-> rest.rng, out |-> <<g.tender>> \o rest.out, cid |-> rest.cid]
             Then(g) ==
                 Join(g, GenerateTendersOneId(n - 1, g.rng, cid, regions_list, as_of_date,
                                              oil_factor))
         IN  Then(GenerateTender(s0, cid, regions_list, as_of_date, oil_factor))

RECURSIVE GenerateTenders(_, _, _, _, _, _)
GenerateTenders(n, s0, cid, regions_list, as_of_date, oil_factor) ==
    IF n = 0 THEN [rng |-> s0, out |-> <<>>, cid |-> cid]
    ELSE LET Join(g, rest) ==
                 [rng |-> rest.rng, out |-> <<g.tender>> \o rest.out, cid |-> rest.cid]
             Then(g) ==
                 Join(g, GenerateTenders(n - 1, g.rng, cid + 1, regions_list, as_of_date,
                                         oil_factor))
         IN  Then(GenerateTender(s0, cid, regions_list, as_of_date, oil_factor))

\* the number of tenders of a tick: round(1.5 * demand_factor + uniform(-1.2, 1.2)) in 0..3
TenderCount(demand_factor, s) ==
    Clamp(RoundDiv((150 * demand_factor) \div 100 + Uniform(-120, 120, s), 100), 0, 3)

\* ContractGenerator.generate_tick: (out, cid) and the stream it leaves
GenerateTick(s0, regions_list, next_contract_id, as_of_date, oil_factor, demand_factor) ==
    LET s1 == RngNext(s0)
    IN  GenerateTenders(TenderCount(demand_factor, s1), s1, next_contract_id,
                        regions_list, as_of_date, oil_factor)

-----------------------------------------------------------------------------
(* rig_market.py: RigMarketGenerator *)

BasePriceMusd(rtype) ==
    IF rtype = "DRILLSHIP" THEN 220 ELSE IF rtype = "SEMI" THEN 150 ELSE 60

\* the asking price of RigMarketGenerator._generate_one, rounded to 0.1 MUSD, floor 5.0
ResalePrice(rtype, age, condition, steel_price) ==
    LET a == BasePriceMusd(rtype) * (100 - 2 * age)
        b == (a * (500 + 7 * condition)) \div 100
        tenths == RoundDiv(b * steel_price, 80000)
    IN  Max2(5000, tenths * 100)

\* RigMarketGenerator._generate_one: six draws
GenerateOne(s0, rig_id, current_year, steel_price) ==
    LET s1 == RngNext(s0)
        rtype == Choice(RigTypes, s1)
        s2 == RngNext(s1)
        age == RandInt(5, 35, s2)
        s3 == RngNext(s2)
        condition == RandInt(30, 90, s3)
        s4 == RngNext(s3)
        region == Choice(Regions, s4)
        s5 == RngNext(s4)
        location_id == RandInt(1, 20, s5)
        s6 == RngNext(s5)
        model_id == RandInt(1, 15, s6)
    IN  [rng |-> s6,
         fs |-> [rig |-> Rig(rig_id, rtype, current_year - age, condition, region, "COLD",
                             location_id, model_id),
                 price_musd |-> ResalePrice(rtype, age, condition, steel_price)]]

\* a faulty variant: every rig of a tick gets the first id and the counter stays
RECURSIVE GenerateRigsOneId(_, _, _, _, _)
GenerateRigsOneId(n, s0, rid, current_year, steel_price) ==
    IF n = 0 THEN [rng |-> s0, out |-> <<>>, rid |-> rid]
    ELSE LET Join(g, rest) == [rng |-> rest.rng, out |-> <<g.fs>> \o rest.out, rid |-> rest.rid]
             Then(g) == Join(g, GenerateRigsOneId(n - 1, g.rng, rid, current_year, steel_price))
         IN  Then(GenerateOne(s0, rid, current_year, steel_price))

RECURSIVE GenerateRigs(_, _, _, _, _)
GenerateRigs(n, s0, rid, current_year, steel_price) ==
    IF n = 0 THEN [rng |-> s0, out |-> <<>>, rid |-> rid]
    ELSE LET Join(g, rest) == [rng |-> rest.rng, out |-> <<g.fs>> \o rest.out, rid |-> rest.rid]
             Then(g) == Join(g, GenerateRigs(n - 1, g.rng, rid + 1, current_year, steel_price))
         IN  Then(GenerateOne(s0, rid, current_year, steel_price))

\* RigMarketGenerator.generate_tick: round(0.8 + uniform(-1, 1)) rigs, clamped to 0..3
RigMarketGenerateTick(s0, current_year, steel_price, next_rig_id) ==
    LET s1 == RngNext(s0)
        n == Clamp(RoundDiv(80 + Uniform(-100, 100, s1), 100), 0, 3)
    IN  GenerateRigs(n, s1, next_rig_id, current_year, steel_price)

\* RigMarketGenerator.to_dict / from_dict: cls() seeds with 42, then the saved state is set
RigMarketGenToDict(s) == [rng_state |-> s]
RigMarketGenFromDict(d) == IF "rng_state" \in DOMAIN d THEN d.rng_state ELSE RngSeed(42)

-----------------------------------------------------------------------------
(* ai.py: AIPersonality, estimate_break_even_dayrate_k, choose_bid *)

PlayerName == "PlayerCo"
AiNameA == "Stack&Pray Drilling"
AiNameB == "Bluewater Titans"

\* Sim.ai_personalities[name]
AiPersonalities(name) ==
    IF name = AiNameA
    THEN [aggressiveness |-> 75, desperation |-> 55, quality_bias |-> 20]
    ELSE [aggressiveness |-> 35, desperation |-> 25, quality_bias |-> 60]

\* next((i for i, r in enumerate(rigs) if r.id == rig_id), None): 0 when there is none
RigIndex(rigs, rig_id) ==
    LET hits == {i \in 1..Len(rigs) : rigs[i].id = rig_id}
    IN  IF hits = {} THEN 0 ELSE CHOOSE i \in hits : \A j \in hits : i <= j

\* [r for r in rigs if r.id != rig_id]
RECURSIVE RemoveRig(_, _)
RemoveRig(rigs, rig_id) ==
    IF rigs = <<>> THEN <<>>
    ELSE IF Head(rigs).id = rig_id THEN RemoveRig(Tail(rigs), rig_id)
    ELSE <<Head(rigs)>> \o RemoveRig(Tail(rigs), rig_id)

\* estimate_break_even_dayrate_k, for the rig itself
EstimateBreakEvenDayrateK(rig, current_year) ==
    LET opex == OpexPerDayK(rig, current_year)
        overhead == 12
        age == Max2(0, current_year - rig.build_year)
        maint == Max2(0, age - 12)
    IN  opex + overhead + maint

\* a bid decision: None, or (rig_id, dayrate_k)
NoBid == [some |-> FALSE, rig_id |-> NoId, dayrate |-> 0]
SomeBid(rig_id, dayrate) == [some |-> TRUE, rig_id |-> rig_id, dayrate |-> dayrate]

\* a member of RigType and a member of RigClassRequired as Python's == and != see them:
\* the two are different Enum classes (RigType a str enum with values "jackup", ..., and
\* RigClassRequired a plain Enum with auto() values), and a member of the one is never
\* equal to a member of the other, whatever their names
RigTypeMember(member) == [enum |-> "RigType", member |-> member]
RigClassMember(member) == [enum |-> "RigClassRequired", member |-> member]

\* the candidate filter of choose_bid: the positions of the roster that pass it
AiCandidates(company, tender) ==
    {i \in 1..Len(company.rigs) :
        LET rig == company.rigs[i]
        IN  /\ IsAvailable(rig)
            /\ rig.state # "SCRAP"
            /\ RigTypeMember(rig.rig_type) = RigClassMember(tender.spec.rig_type)
            /\ rig.region = tender.spec.region
            /\ rig.condition >= tender.spec.min_condition}

\* candidates.sort(key=(abs(condition - min_condition) * (1 - quality_bias), -condition))
\* and candidates[0]: the least key, the earliest in the roster among equal keys
AiPick(company, personality, tender, cands) ==
    LET k1(i) == Abs(company.rigs[i].condition - tender.spec.min_condition)
                 * (100 - personality.quality_bias)
        k2(i) == 0 - company.rigs[i].condition
        Before(i, j) == \/ k1(i) < k1(j)
                        \/ k1(i) = k1(j) /\ k2(i) < k2(j)
                        \/ k1(i) = k1(j) /\ k2(i) = k2(j) /\ i <= j
    IN  CHOOSE i \in cands : \A j \in cands : Before(i, j)

\* a faulty variant: the returned rate is floored at the break-even instead of at 1
AiPriceFloorBreakeven(company, personality, tender, rig) ==
    LET current_year == tender.spec.start_date.year
        breakeven == EstimateBreakEvenDayrateK(rig, current_year)
        discount == ((500 + 35 * personality.aggressiveness) * tender.spec.max_dayrate) \div 10000
        bid0 == tender.spec.max_dayrate - discount
        bid1 == IF company.cash_musd < 25000 THEN Min2(bid0, breakeven + 8) ELSE bid0
        bid2 == IF personality.desperation > 60 /\ company.cash_musd < 15000
                THEN Min2(bid1, breakeven - ((5 * personality.desperation) \div 100))
                ELSE bid1
        bid3 == Min2(bid2, tender.spec.max_dayrate)
    IN  IF bid3 < breakeven - 10 /\ personality.desperation < 50 THEN NoBid
        ELSE SomeBid(rig.id, Max2(breakeven, bid3))

\* the pricing of choose_bid, from the break-even of the chosen rig to the return
AiPrice(company, personality, tender, rig) ==
    LET current_year == tender.spec.start_date.year
        breakeven == EstimateBreakEvenDayrateK(rig, current_year)
        discount == ((500 + 35 * personality.aggressiveness) * tender.spec.max_dayrate) \div 10000
        bid0 == tender.spec.max_dayrate - discount
        bid1 == IF company.cash_musd < 25000 THEN Min2(bid0, breakeven + 8) ELSE bid0
        bid2 == IF personality.desperation > 60 /\ company.cash_musd < 15000
                THEN Min2(bid1, breakeven - ((5 * personality.desperation) \div 100))
                ELSE bid1
        bid3 == Min2(bid2, tender.spec.max_dayrate)
    IN  IF bid3 < breakeven - 10 /\ personality.desperation < 50 THEN NoBid
        ELSE SomeBid(rig.id, Max2(1, bid3))

\* choose_bid
ChooseBid(company, personality, tender) ==
    LET cands == AiCandidates(company, tender)
    IN  IF cands = {} THEN NoBid
        ELSE AiPrice(company, personality, tender,
                     company.rigs[AiPick(company, personality, tender, cands)])

\* a faulty variant: the sort is applied to company.rigs itself, which is left in
\* descending order of condition
ChooseBidLeavesSorted(company, personality, tender, rng) ==
    LET n == Len(company.rigs)
        f == CHOOSE g \in [1..n -> 1..n] :
                /\ \A a \in 1..n, b \in 1..n : a # b => g[a] # g[b]
                /\ \A a \in 1..n, b \in 1..n :
                      a < b => company.rigs[g[a]].condition >= company.rigs[g[b]].condition
    IN  [company |-> [company EXCEPT !.rigs = [k \in 1..n |-> company.rigs[f[k]]]],
         tender |-> tender, rng |-> rng]

\* what a call of choose_bid leaves of its arguments and of the shared random.Random:
\* candidates is a list of its own and the sort is of that list, no attribute of the
\* company, of a rig or of the tender is assigned, and no draw is made
ChooseBidLeaves(company, personality, tender, rng) ==
    [company |-> company, tender |-> tender, rng |-> rng]

-----------------------------------------------------------------------------
(* sim.py: the auction *)

\* next(i for i, x in enumerate(all_companies) if x.name == name): 0 when there is none
CompanyIndex(cs, name) ==
    LET hits == {i \in 1..Len(cs) : cs[i].name = name}
    IN  IF hits = {} THEN 0 ELSE CHOOSE i \in hits : \A j \in hits : i <= j

\* a faulty variant: the condition of the rig is not tested
ValidateBidAnyCondition(tender, rig) ==
    /\ IsAvailable(rig)
    /\ RigMatchesClass(rig.rig_type, tender.spec.rig_type)
    /\ rig.region = tender.spec.region

\* Sim.validate_bid, the flag of the pair it returns
ValidateBid(tender, rig) ==
    /\ IsAvailable(rig)
    /\ RigMatchesClass(rig.rig_type, tender.spec.rig_type)
    /\ rig.region = tender.spec.region
    /\ rig.condition >= tender.spec.min_condition

\* Sim.validate_bid, the reason of the pair it returns: "" with True, and with False the
\* sentence of the first test that failed, named here by what it is about
ValidateBidReason(tender, rig) ==
    IF ~IsAvailable(rig) THEN "not available"
    ELSE IF ~RigMatchesClass(rig.rig_type, tender.spec.rig_type) THEN "type"
    ELSE IF rig.region # tender.spec.region THEN "region"
    ELSE IF rig.condition < tender.spec.min_condition THEN "condition"
    ELSE ""

\* a faulty variant: the first tuple of a tender id is the one that is kept
PBidMapFirst(pbids, t_id) ==
    LET hits == {i \in 1..Len(pbids) : pbids[i][1] = t_id}
    IN  IF hits = {} THEN NoBid
        ELSE LET b == pbids[CHOOSE i \in hits : \A j \in hits : i <= j]
             IN  SomeBid(b[2], b[3])

\* p_bid_map = {t_id: (r_id, rate) for t_id, r_id, rate in player_bids}: the last tuple
\* of a tender id is the one the dict keeps
PBidMap(pbids, t_id) ==
    LET hits == {i \in 1..Len(pbids) : pbids[i][1] = t_id}
    IN  IF hits = {} THEN NoBid
        ELSE LET b == pbids[CHOOSE i \in hits : \A j \in hits : j <= i]
             IN  SomeBid(b[2], b[3])

\* the bids gathered for one tender: the player's first, then the AI companies in order
RECURSIVE AiBids(_, _, _)
AiBids(cs, k, tender) ==
    IF k > Len(cs) THEN <<>>
    ELSE IF cs[k].name = PlayerName THEN AiBids(cs, k + 1, tender)
    ELSE LET Entry(b) ==
                 IF b.some
                 THEN <<[company_name |-> cs[k].name, rig_id |-> b.rig_id, dayrate |-> b.dayrate]>>
                 ELSE <<>>
         IN  Entry(ChooseBid(cs[k], AiPersonalities(cs[k].name), tender))
             \o AiBids(cs, k + 1, tender)

GatherBids(cs, tender, pbids) ==
    LET Entry(pb) ==
            IF pb.some
            THEN <<[company_name |-> PlayerName, rig_id |-> pb.rig_id, dayrate |-> pb.dayrate]>>
            ELSE <<>>
    IN  Entry(PBidMap(pbids, tender.id)) \o AiBids(cs, 1, tender)

\* dayrate + (1.0 - reputation) * 4.0, in hundredths
Score(cs, bid) == bid.dayrate * 100 + (100 - cs[CompanyIndex(cs, bid.company_name)].reputation) * 4

\* a faulty variant: the sort is descending, the highest score is in front
PickWinnerHighest(cs, bids) ==
    CHOOSE i \in 1..Len(bids) :
        \A j \in 1..Len(bids) :
            \/ Score(cs, bids[i]) > Score(cs, bids[j])
            \/ Score(cs, bids[i]) = Score(cs, bids[j]) /\ i <= j

\* a faulty variant: an unstable sort that leaves the last of the least in front
PickWinnerLast(cs, bids) ==
    CHOOSE i \in 1..Len(bids) :
        \A j \in 1..Len(bids) :
            \/ Score(cs, bids[i]) < Score(cs, bids[j])
            \/ Score(cs, bids[i]) = Score(cs, bids[j]) /\ i >= j

\* scored.sort(key=score); scored[0]: the sort is stable, so the first of the least
PickWinner(cs, bids) ==
    CHOOSE i \in 1..Len(bids) :
        \A j \in 1..Len(bids) :
            \/ Score(cs, bids[i]) < Score(cs, bids[j])
            \/ Score(cs, bids[i]) = Score(cs, bids[j]) /\ i <= j

\* a faulty variant: the rig earns the tender's ceiling instead of the rate it bid
ApplyAwardMaxRate(rig, tender, dayrate) ==
    [rig EXCEPT !.on_contract_months_left = tender.spec.months,
                !.contract_dayrate = tender.spec.max_dayrate,
                !.state = "ACTIVE",
                !.contract_id = tender.id]

\* a faulty variant: the contract reference is not stored
ApplyAwardNoId(rig, tender, dayrate) ==
    [rig EXCEPT !.on_contract_months_left = tender.spec.months,
                !.contract_dayrate = dayrate,
                !.state = "ACTIVE"]

\* the four assignments of an award
ApplyAward(rig, tender, dayrate) ==
    [rig EXCEPT !.on_contract_months_left = tender.spec.months,
                !.contract_dayrate = dayrate,
                !.state = "ACTIVE",
                !.contract_id = tender.id]

\* one pass of the loop of _award_contracts from the gathered bids on.  fault: the
\* next(...) that looks the winning rig up in the winner's roster found nothing
\* (StopIteration)
AwardBids(cs, tender, bids) ==
    LET Award(w, ci, ri) ==
            IF ri = 0 THEN [cs |-> cs, awards |-> <<>>, fault |-> TRUE]
            ELSE [cs |-> [cs EXCEPT ![ci].rigs[ri] =
                                        ApplyAward(cs[ci].rigs[ri], tender, w.dayrate)],
                  awards |-> <<[tender_id |-> tender.id, region |-> tender.spec.region,
                                winner |-> w.company_name, rig_id |-> w.rig_id,
                                dayrate_k |-> w.dayrate, months |-> tender.spec.months]>>,
                  fault |-> FALSE]
        Locate(w, ci) == Award(w, ci, RigIndex(cs[ci].rigs, w.rig_id))
        Winner(w) == Locate(w, CompanyIndex(cs, w.company_name))
    IN  IF bids = <<>> THEN [cs |-> cs, awards |-> <<>>, fault |-> FALSE]
        ELSE Winner(bids[PickWinner(cs, bids)])

\* one pass of the loop of _award_contracts
AwardTender(cs, tender, pbids) == AwardBids(cs, tender, GatherBids(cs, tender, pbids))

\* Sim._award_contracts over the tenders from position k on
RECURSIVE AwardContracts(_, _, _, _)
AwardContracts(cs, tenders, k, pbids) ==
    IF k > Len(tenders) THEN [cs |-> cs, awards |-> <<>>, fault |-> FALSE]
    ELSE LET Join(one, rest) ==
                 [cs |-> rest.cs, awards |-> one.awards \o rest.awards, fault |-> rest.fault]
             Then(one) ==
                 IF one.fault THEN one
                 ELSE Join(one, AwardContracts(one.cs, tenders, k + 1, pbids))
         IN  Then(AwardTender(cs, tenders[k], pbids))

-----------------------------------------------------------------------------
(* sim.py: construction *)

\* SimConfig(seed, months)
SimConfig(seed, months) == [seed |-> seed, months |-> months, start_year |-> 2025]

Company(id, name, cash_musd, rigs, reputation) ==
    [id |-> id, name |-> name, cash_musd |-> cash_musd, rigs |-> rigs,
     debt_musd |-> 0, reputation |-> reputation]

\* Sim._make_player
MakePlayer(cfg) ==
    Company(1, PlayerName, 55000,
            <<Rig(1, "JACKUP", cfg.start_year - 8, 78, "NORTH_SEA", "WARM", 1, 5),
              Rig(2, "JACKUP", cfg.start_year - 15, 62, "GOM", "COLD", 2, 3)>>,
            55)

\* Sim._make_ai
MakeAi(cfg) ==
    <<Company(10, AiNameA, 40000,
              <<Rig(101, "JACKUP", cfg.start_year - 11, 74, "NORTH_SEA", "ACTIVE", 3, 12),
                Rig(102, "SEMI", cfg.start_year - 9, 82, "NORTH_SEA", "ACTIVE", 4, 8)>>,
              50),
      Company(20, AiNameB, 85000,
              <<Rig(201, "SEMI", cfg.start_year - 6, 90, "GOM", "ACTIVE", 5, 2),
                Rig(202, "JACKUP", cfg.start_year - 18, 58, "GOM", "COLD", 6, 10)>>,
              65)>>

\* Sim.__init__
SimInit(cfg) ==
    [cfg |-> cfg,
     rng |-> RngSeed(cfg.seed),
     oil_market |-> OilMarketInit,
     steel_market |-> SteelMarketInit,
     contract_id_seq |-> 1,
     rig_id_seq |-> 1000,
     contract_gen |-> ContractGenInit,
     rig_market_gen |-> RngSeed(cfg.seed),
     all_companies |-> <<MakePlayer(cfg)>> \o MakeAi(cfg),
     market_history |-> <<>>,
     company_history |-> <<>>,
     current_tenders |-> <<>>,
     current_rigs_for_sale |-> <<>>]

\* self.player: the position of the player's company in all_companies
PlayerIdx(S) == CompanyIndex(S.all_companies, PlayerName)
Player(S) == S.all_companies[PlayerIdx(S)]

\* Sim._current_year
CurrentYear(S) == S.cfg.start_year + (S.oil_market.month \div 12)

-----------------------------------------------------------------------------
(* sim.py: save / load *)

RECURSIVE AllRigs(_)
AllRigs(cs) == IF cs = <<>> THEN <<>> ELSE Head(cs).rigs \o AllRigs(Tail(cs))

\* Sim.to_dict (meta.created_at, the wall clock, is left out)
SimToDict(S) ==
    [save_version |-> 1,
     rng_state |-> S.rng,
     time |-> [month |-> S.oil_market.month],
     markets |-> [oil |-> OilToDict(S.oil_market), steel |-> SteelToDict(S.steel_market)],
     rigs |-> [i \in 1..Len(AllRigs(S.all_companies)) |-> RigToDict(AllRigs(S.all_companies)[i])],
     companies |-> [i \in 1..Len(S.all_companies) |-> CompanyToDict(S.all_companies[i])],
     contract_id_seq |-> S.contract_id_seq,
     rig_id_seq |-> S.rig_id_seq,
     current_rigs_for_sale |->
         [i \in 1..Len(S.current_rigs_for_sale) |-> RigForSaleToDict(S.current_rigs_for_sale[i])],
     contract_gen |-> ContractGenToDict(S.contract_gen),
     rig_market_gen |-> RigMarketGenToDict(S.rig_market_gen)]

\* Sim.load: a Sim built with SimConfig(seed=0), then overwritten field by field
SimLoad(d) ==
    LET fresh == SimInit(SimConfig(0, 36))
        all_rigs_list == [i \in 1..Len(Get(d, "rigs", <<>>)) |-> RigFromDict(d.rigs[i])]
    IN  [fresh EXCEPT
            !.rng = d.rng_state,
            !.contract_id_seq = d.contract_id_seq,
            !.rig_id_seq = Get(d, "rig_id_seq", 1000),
            !.oil_market = OilFromDict(d.markets.oil),
            !.steel_market = SteelFromDict(d.markets.steel),
            !.contract_gen = ContractGenFromDict(d.contract_gen),
            !.rig_market_gen = IF "rig_market_gen" \in DOMAIN d
                               THEN RigMarketGenFromDict(d.rig_market_gen)
                               ELSE fresh.rig_market_gen,
            !.current_rigs_for_sale =
                IF "current_rigs_for_sale" \in DOMAIN d
                THEN [i \in 1..Len(d.current_rigs_for_sale) |->
                          RigForSaleFromDict(d.current_rigs_for_sale[i])]
                ELSE <<>>,
            !.all_companies = [i \in 1..Len(d.companies) |->
                                  CompanyFromDict(d.companies[i], all_rigs_list)]]

\* whether Sim.load raises on the dict d: a key read with d[...] is missing from d or
\* from a company of d (KeyError), or no company is named PlayerCo (StopIteration).
\* Company.from_dict reads d["rigs"] only when the rig map is not empty.  The keys of
\* the dicts of the markets, of the generators and of the rigs are taken as present.
SimLoadRaises(d) ==
    \/ {"rng_state", "contract_id_seq", "markets", "contract_gen", "companies"}
           \ DOMAIN d # {}
    \/ /\ "companies" \in DOMAIN d
       /\ \/ \E i \in 1..Len(d.companies) :
                \/ {"id", "name", "cash_musd", "reputation", "debt_musd"}
                       \ DOMAIN d.companies[i] # {}
                \/ Get(d, "rigs", <<>>) # <<>> /\ "rigs" \notin DOMAIN d.companies[i]
          \/ \A i \in 1..Len(d.companies) :
                "name" \in DOMAIN d.companies[i] => d.companies[i].name # PlayerName

-----------------------------------------------------------------------------
(* sim.py: cash settlement, logging, transit *)

\* the loop over c.rigs in _settle_month_cashflows: the rigs after it, revenue and cost
RECURSIVE SettleRigs(_, _)
SettleRigs(rigs, current_year) ==
    IF rigs = <<>> THEN [rigs |-> <<>>, rev |-> 0, cost |-> 0]
    ELSE LET r == Head(rigs)
             rest == SettleRigs(Tail(rigs), current_year)
             left == r.on_contract_months_left - 1
             r2 == IF left = 0
                   THEN [r EXCEPT !.on_contract_months_left = 0, !.contract_dayrate = 0,
                                  !.state = "ACTIVE", !.contract_id = NoId]
                   ELSE [r EXCEPT !.on_contract_months_left = left]
         IN  IF r.state = "SCRAP"
             THEN [rigs |-> <<r>> \o rest.rigs, rev |-> rest.rev, cost |-> rest.cost]
             ELSE IF r.on_contract_months_left > 0
             THEN [rigs |-> <<r2>> \o rest.rigs,
                   rev |-> r.contract_dayrate * 30 + rest.rev,
                   cost |-> OpexPerDayK(r, current_year) * 30 + rest.cost]
             ELSE [rigs |-> <<r>> \o rest.rigs, rev |-> rest.rev,
                   cost |-> StackingCostPerMonthK(r) + rest.cost]

\* a faulty variant: the 0.008 of _forecast_monthly_financials in place of 0.01
InterestForecastRate(c) == IF c.debt_musd > 0 THEN (c.debt_musd * 8) \div 1000 ELSE 0

\* the interest of a month: debt_musd * 0.01
Interest(c) == IF c.debt_musd > 0 THEN c.debt_musd \div 100 ELSE 0

\* the body of the loop over all_companies in _settle_month_cashflows
SettleCompany(c, current_year) ==
    LET sr == SettleRigs(c.rigs, current_year)
    IN  [c EXCEPT !.rigs = sr.rigs,
                  !.cash_musd = c.cash_musd + (sr.rev - (sr.cost + Interest(c)))]

\* Sim._forecast_monthly_financials: revenue and opex of a month, nothing changed
ForecastMonthlyFinancials(S, company) ==
    LET year == CurrentYear(S)
        rigs == company.rigs
        rev(r) == IF r.state # "SCRAP" /\ r.on_contract_months_left > 0
                  THEN r.contract_dayrate * 30 ELSE 0
        opex(r) == IF r.state = "SCRAP" THEN 0
                   ELSE IF r.on_contract_months_left > 0 THEN OpexPerDayK(r, year) * 30
                   ELSE StackingCostPerMonthK(r)
    IN  [revenue_musd |-> SumSeq([i \in 1..Len(rigs) |-> rev(rigs[i])]),
         opex_musd |-> SumSeq([i \in 1..Len(rigs) |-> opex(rigs[i])])
                          + (IF company.debt_musd > 0 THEN (company.debt_musd * 8) \div 1000
                             ELSE 0)]

\* Sim.get_company_finances
GetCompanyFinances(S, company_name) ==
    LET company == S.all_companies[CompanyIndex(S.all_companies, company_name)]
        f == ForecastMonthlyFinancials(S, company)
    IN  [cash_musd |-> company.cash_musd,
         debt_musd |-> company.debt_musd,
         reputation |-> company.reputation,
         revenue_musd_month |-> f.revenue_musd,
         opex_musd_month |-> f.opex_musd,
         net_musd_month |-> f.revenue_musd - f.opex_musd]

\* Sim._settle_month_cashflows
SettleMonthCashflows(cs, current_year) ==
    [i \in 1..Len(cs) |-> SettleCompany(cs[i], current_year)]

\* the number of rigs of a roster not on contract and in the given state
CountIdle(rigs, state) ==
    Cardinality({i \in 1..Len(rigs) : rigs[i].on_contract_months_left = 0 /\ rigs[i].state = state})

\* Sim._record_month
RecordMonth(S) ==
    [S EXCEPT
        !.market_history = Append(@, [month |-> S.oil_market.month,
                                      oil_price |-> S.oil_market.oil_price,
                                      steel_price |-> S.steel_market.steel_price,
                                      demand_factor |-> DemandFactor(S.oil_market)]),
        !.company_history = @ \o
            [i \in 1..Len(S.all_companies) |->
                LET c == S.all_companies[i]
                IN  [month |-> S.oil_market.month, company |-> c.name,
                     cash_musd |-> c.cash_musd,
                     rigs_active |-> Cardinality({k \in 1..Len(c.rigs) :
                                                     c.rigs[k].on_contract_months_left > 0}),
                     rigs_warm |-> CountIdle(c.rigs, "WARM"),
                     rigs_cold |-> CountIdle(c.rigs, "COLD")]]]

\* a faulty variant: the transit ends but the rig is left in the region it came from
TransitStepNoMove(r) ==
    IF r.transit_months_left > 0
    THEN IF r.transit_months_left - 1 = 0
         THEN [r EXCEPT !.transit_months_left = 0, !.target_region = NoRegion]
         ELSE [r EXCEPT !.transit_months_left = r.transit_months_left - 1]
    ELSE r

\* the transit step of resolve_turn, for one rig
TransitStep(r) ==
    IF r.transit_months_left > 0
    THEN IF r.transit_months_left - 1 = 0
         THEN [r EXCEPT !.transit_months_left = 0, !.region = r.target_region,
                        !.target_region = NoRegion]
         ELSE [r EXCEPT !.transit_months_left = r.transit_months_left - 1]
    ELSE r

TransitProgress(cs) ==
    [i \in 1..Len(cs) |->
        [cs[i] EXCEPT !.rigs = [k \in 1..Len(cs[i].rigs) |-> TransitStep(cs[i].rigs[k])]]]

-----------------------------------------------------------------------------
(* sim.py: the turn engine *)

\* a faulty variant: the tenders are generated from the oil market as it was before
\* step_month
PrepareTurnStale(S) ==
    LET s1 == RngNext(S.rng)
        s2 == RngNext(s1)
        Turn(oil, steel, gen, mkt) ==
            [S EXCEPT !.rng = gen.rng,
                      !.oil_market = oil,
                      !.steel_market = steel,
                      !.contract_id_seq = gen.cid,
                      !.current_tenders = gen.out,
                      !.rig_market_gen = mkt.rng,
                      !.current_rigs_for_sale = mkt.out,
                      !.rig_id_seq = mkt.rid]
        Generate(oil, steel, year) ==
            Turn(oil, steel,
                 GenerateTick(s2, <<"NORTH_SEA", "GOM">>, S.contract_id_seq,
                              [year |-> year, month |-> (oil.month % 12) + 1],
                              OilFactor(S.oil_market), DemandFactor(S.oil_market)),
                 RigMarketGenerateTick(S.rig_market_gen, year, steel.steel_price, S.rig_id_seq))
        Stepped(oil, steel) == Generate(oil, steel, S.cfg.start_year + (oil.month \div 12))
    IN  Stepped(OilStepMonth(S.oil_market, s1), SteelStepMonth(S.steel_market, s2))

\* a faulty variant: the rigs of the tick are added to the listing of the turn before
PrepareTurnKeepsListing(S) ==
    LET s1 == RngNext(S.rng)
        s2 == RngNext(s1)
        Turn(oil, steel, gen, mkt) ==
            [S EXCEPT !.rng = gen.rng,
                      !.oil_market = oil,
                      !.steel_market = steel,
                      !.contract_id_seq = gen.cid,
                      !.current_tenders = gen.out,
                      !.rig_market_gen = mkt.rng,
                      !.current_rigs_for_sale = S.current_rigs_for_sale \o mkt.out,
                      !.rig_id_seq = mkt.rid]
        Generate(oil, steel, year) ==
            Turn(oil, steel,
                 GenerateTick(s2, <<"NORTH_SEA", "GOM">>, S.contract_id_seq,
                              [year |-> year, month |-> (oil.month % 12) + 1],
                              OilFactor(oil), DemandFactor(oil)),
                 RigMarketGenerateTick(S.rig_market_gen, year, steel.steel_price, S.rig_id_seq))
        Stepped(oil, steel) == Generate(oil, steel, S.cfg.start_year + (oil.month \div 12))
    IN  Stepped(OilStepMonth(S.oil_market, s1), SteelStepMonth(S.steel_market, s2))

\* Sim.prepare_turn; the tenders it returns are current_tenders of the result
PrepareTurn(S) ==
    LET s1 == RngNext(S.rng)
        s2 == RngNext(s1)
        Turn(oil, steel, gen, mkt) ==
            [S EXCEPT !.rng = gen.rng,
                      !.oil_market = oil,
                      !.steel_market = steel,
                      !.contract_id_seq = gen.cid,
                      !.current_tenders = gen.out,
                      !.rig_market_gen = mkt.rng,
                      !.current_rigs_for_sale = mkt.out,
                      !.rig_id_seq = mkt.rid]
        Generate(oil, steel, year) ==
            Turn(oil, steel,
                 GenerateTick(s2, <<"NORTH_SEA", "GOM">>, S.contract_id_seq,
                              [year |-> year, month |-> (oil.month % 12) + 1],
                              OilFactor(oil), DemandFactor(oil)),
                 RigMarketGenerateTick(S.rig_market_gen, year, steel.steel_price, S.rig_id_seq))
        Stepped(oil, steel) == Generate(oil, steel, S.cfg.start_year + (oil.month \div 12))
    IN  Stepped(OilStepMonth(S.oil_market, s1), SteelStepMonth(S.steel_market, s2))

\* Sim.resolve_turn.  When _award_contracts faults the exception leaves resolve_turn at
\* once: the awards applied so far stay (applied), nothing is returned or settled and
\* no file is written.
\* file is what _save_turn_files hands to Sim.save.
ResolveTurn(S, pbids) ==
    LET Saved(aw, S3) ==
            [sim |-> S3, awards |-> aw.awards, applied |-> aw.awards, fault |-> FALSE,
             file |-> [exists |-> TRUE, d |-> SimToDict(S3)]]
        Moved(aw, S2) ==
            Saved(aw, [S2 EXCEPT !.all_companies = TransitProgress(S2.all_companies)])
        Settled(aw, S1) == Moved(aw, RecordMonth(S1))
        Awarded(aw) ==
            IF aw.fault
            THEN [sim |-> [S EXCEPT !.all_companies = aw.cs], awards |-> <<>>,
                  applied |-> aw.awards, fault |-> TRUE, file |-> NoFile]
            ELSE Settled(aw, [S EXCEPT !.all_companies =
                                           SettleMonthCashflows(aw.cs, CurrentYear(S))])
    IN  Awarded(AwardContracts(S.all_companies, S.current_tenders, 1, pbids))

\* Sim._player_auto_bid: the positions of the player's roster that pass the filter
AutoCandidates(S, tender) ==
    {i \in 1..Len(Player(S).rigs) : ValidateBid(tender, Player(S).rigs[i])}

\* Sim._player_auto_bid
PlayerAutoBid(S, tender) ==
    LET rigs == Player(S).rigs
        cands == AutoCandidates(S, tender)
        current_year == tender.spec.start_date.year
        k1(i) == OpexPerDayK(rigs[i], current_year)
        k2(i) == 0 - rigs[i].condition
        Before(i, j) == \/ k1(i) < k1(j)
                        \/ k1(i) = k1(j) /\ k2(i) < k2(j)
                        \/ k1(i) = k1(j) /\ k2(i) = k2(j) /\ i <= j
        rig == rigs[CHOOSE i \in cands : \A j \in cands : Before(i, j)]
        softness == 100 - Min2(100, (DemandFactor(S.oil_market) * 100) \div 150)
        discount == ((800 + 22 * softness) * tender.spec.max_dayrate) \div 10000
        dayrate == tender.spec.max_dayrate - discount
        breakeven == OpexPerDayK(rig, current_year) + 12
    IN  IF cands = {} THEN NoBid
        ELSE IF dayrate < breakeven - 8 THEN NoBid
        ELSE SomeBid(rig.id, Max2(1, dayrate))

\* the bid list Sim.run builds from the tenders of the turn
RECURSIVE AutoBids(_, _)
AutoBids(S, k) ==
    IF k > Len(S.current_tenders) THEN <<>>
    ELSE LET t == S.current_tenders[k]
             Entry(b) == IF b.some THEN <<<<t.id, b.rig_id, b.dayrate>>>> ELSE <<>>
         IN  Entry(PlayerAutoBid(S, t)) \o AutoBids(S, k + 1)

-----------------------------------------------------------------------------
(* sim.py: the player's commands; each returns the Sim after the call and the pair *)
(* (success, message)                                                              *)

Result(S, ok, msg) == [sim |-> S, ok |-> ok, msg |-> msg]

\* next((i for i, fs in enumerate(listing) if fs.rig.id == rig_id), None): 0 for None
ListingIndex(listing, rig_id) ==
    LET hits == {i \in 1..Len(listing) : listing[i].rig.id = rig_id}
    IN  IF hits = {} THEN 0 ELSE CHOOSE i \in hits : \A j \in hits : i <= j

\* [fs for fs in listing if fs.rig.id != rig_id]
RECURSIVE RemoveListing(_, _)
RemoveListing(listing, rig_id) ==
    IF listing = <<>> THEN <<>>
    ELSE IF Head(listing).rig.id = rig_id THEN RemoveListing(Tail(listing), rig_id)
    ELSE <<Head(listing)>> \o RemoveListing(Tail(listing), rig_id)

\* a faulty variant: the rig leaves the listing before the cash is checked
BuyRigEager(S, rig_id) ==
    LET p == PlayerIdx(S)
        m == ListingIndex(S.current_rigs_for_sale, rig_id)
        match == S.current_rigs_for_sale[m]
        new_rig == [match.rig EXCEPT !.company_id = Player(S).id]
        taken == [S EXCEPT !.current_rigs_for_sale = RemoveListing(@, rig_id)]
    IN  IF m = 0 THEN Result(S, FALSE, "not found in market")
        ELSE IF Player(S).cash_musd < match.price_musd
        THEN Result(taken, FALSE, "Insufficient cash")
        ELSE Result([taken EXCEPT !.all_companies[p].cash_musd = @ - match.price_musd,
                                  !.all_companies[p].rigs = Append(@, new_rig)],
                    TRUE, "Successfully purchased")

\* a faulty variant: the bought rig stays in the listing
BuyRigStaysListed(S, rig_id) ==
    LET p == PlayerIdx(S)
        m == ListingIndex(S.current_rigs_for_sale, rig_id)
        match == S.current_rigs_for_sale[m]
        new_rig == [match.rig EXCEPT !.company_id = Player(S).id]
    IN  IF m = 0 THEN Result(S, FALSE, "not found in market")
        ELSE IF Player(S).cash_musd < match.price_musd
        THEN Result(S, FALSE, "Insufficient cash")
        ELSE Result([S EXCEPT !.all_companies[p].cash_musd = @ - match.price_musd,
                              !.all_companies[p].rigs = Append(@, new_rig)],
                    TRUE, "Successfully purchased")

\* Sim.buy_rig
BuyRig(S, rig_id) ==
    LET p == PlayerIdx(S)
        m == ListingIndex(S.current_rigs_for_sale, rig_id)
        match == S.current_rigs_for_sale[m]
        new_rig == [match.rig EXCEPT !.company_id = Player(S).id]
    IN  IF m = 0 THEN Result(S, FALSE, "not found in market")
        ELSE IF Player(S).cash_musd < match.price_musd
        THEN Result(S, FALSE, "Insufficient cash")
        ELSE Result([S EXCEPT !.all_companies[p].cash_musd = @ - match.price_musd,
                              !.all_companies[p].rigs = Append(@, new_rig),
                              !.current_rigs_for_sale = RemoveListing(@, rig_id)],
                    TRUE, "Successfully purchased")

\* a faulty variant: the combined transitions charge one leg only
TransitionCostOneLeg(rig, new_state) ==
    IF rig.state = "COLD" /\ new_state \in {"WARM", "ACTIVE"}
    THEN (IF rig.rig_type = "JACKUP" THEN 1200 ELSE 3500)
    ELSE IF rig.state = "WARM" /\ new_state = "ACTIVE"
    THEN (IF rig.rig_type = "JACKUP" THEN 300 ELSE 800)
    ELSE IF rig.state = "ACTIVE" /\ new_state \in {"WARM", "COLD"} THEN 50
    ELSE IF rig.state = "WARM" /\ new_state = "COLD" THEN 200
    ELSE -1

\* the cost table of update_rig_state, in $k; -1 for a transition it does not support
TransitionCost(rig, new_state) ==
    IF rig.state = "COLD" /\ new_state = "WARM"
    THEN (IF rig.rig_type = "JACKUP" THEN 1200 ELSE 3500)
    ELSE IF rig.state = "WARM" /\ new_state = "ACTIVE"
    THEN (IF rig.rig_type = "JACKUP" THEN 300 ELSE 800)
    ELSE IF rig.state = "ACTIVE" /\ new_state = "WARM" THEN 50
    ELSE IF rig.state = "WARM" /\ new_state = "COLD" THEN 200
    ELSE IF rig.state = "COLD" /\ new_state = "ACTIVE"
    THEN (IF rig.rig_type = "JACKUP" THEN 1200 + 300 ELSE 3500 + 800)
    ELSE IF rig.state = "ACTIVE" /\ new_state = "COLD" THEN 50 + 200
    ELSE -1

\* Sim.update_rig_state
UpdateRigState(S, rig_id, new_state) ==
    LET p == PlayerIdx(S)
        i == RigIndex(Player(S).rigs, rig_id)
        rig == Player(S).rigs[i]
        cost_musd == TransitionCost(rig, new_state)
    IN  IF i = 0 THEN Result(S, FALSE, "not found in your fleet")
        ELSE IF rig.on_contract_months_left > 0 THEN Result(S, FALSE, "is on contract")
        ELSE IF rig.state = new_state THEN Result(S, FALSE, "is already in state")
        ELSE IF cost_musd < 0 THEN Result(S, FALSE, "Unsupported transition")
        ELSE IF Player(S).cash_musd < cost_musd THEN Result(S, FALSE, "Insufficient cash")
        ELSE Result([S EXCEPT !.all_companies[p].cash_musd = @ - cost_musd,
                              !.all_companies[p].rigs[i].state = new_state],
                    TRUE, "state changed")

\* a faulty variant: the payout is cut to one decimal instead of rounded
ScrapPayoutTruncated(rig) ==
    LET base10 == IF rig.rig_type = "DRILLSHIP" THEN 80
                  ELSE IF rig.rig_type = "SEMI" THEN 50 ELSE 25
    IN  100 * ((base10 * (400 + 6 * rig.condition)) \div 1000)

\* round(base * (0.4 + (condition / 100.0) * 0.6), 1), in $k.  Where the exact product
\* ends in 5 hundredths the double that holds it decides: it lies below the half for
\* a semi at condition 35, 55, 75, 85 or 95 and at or above it everywhere else
ScrapPayout(rig) ==
    LET base10 == IF rig.rig_type = "DRILLSHIP" THEN 80
                  ELSE IF rig.rig_type = "SEMI" THEN 50 ELSE 25
        n == base10 * (400 + 6 * rig.condition)
        q == n \div 1000
        r == n % 1000
        below == rig.rig_type = "SEMI" /\ rig.condition \in {35, 55, 75, 85, 95}
    IN  100 * (IF r < 500 THEN q
               ELSE IF r > 500 THEN q + 1
               ELSE IF below THEN q ELSE q + 1)

\* a faulty variant: the rig is marked SCRAP but stays in the roster
ScrapRigKept(S, rig_id) ==
    LET p == PlayerIdx(S)
        i == RigIndex(Player(S).rigs, rig_id)
        rig == Player(S).rigs[i]
    IN  IF i = 0 THEN Result(S, FALSE, "not found in your fleet")
        ELSE IF rig.on_contract_months_left > 0 THEN Result(S, FALSE, "is on contract")
        ELSE Result([S EXCEPT !.all_companies[p].cash_musd = @ + ScrapPayout(rig),
                              !.all_companies[p].rigs[i].state = "SCRAP"],
                    TRUE, "scrapped")

\* Sim.scrap_rig
ScrapRig(S, rig_id) ==
    LET p == PlayerIdx(S)
        i == RigIndex(Player(S).rigs, rig_id)
        rig == Player(S).rigs[i]
    IN  IF i = 0 THEN Result(S, FALSE, "not found in your fleet")
        ELSE IF rig.on_contract_months_left > 0 THEN Result(S, FALSE, "is on contract")
        ELSE Result([S EXCEPT !.all_companies[p].cash_musd = @ + ScrapPayout(rig),
                              !.all_companies[p].rigs = RemoveRig(@, rig_id)],
                    TRUE, "scrapped")

\* a faulty variant: the transit is started but the destination is not stored
MobilizeRigNoTarget(S, rig_id, target_region) ==
    LET p == PlayerIdx(S)
        i == RigIndex(Player(S).rigs, rig_id)
        rig == Player(S).rigs[i]
        cost_musd == 2500
        duration_months == 1
    IN  IF i = 0 THEN Result(S, FALSE, "not found in your fleet")
        ELSE IF rig.on_contract_months_left > 0 THEN Result(S, FALSE, "is on contract")
        ELSE IF rig.region = target_region /\ rig.transit_months_left = 0
        THEN Result(S, FALSE, "is already in region")
        ELSE IF Player(S).cash_musd < cost_musd THEN Result(S, FALSE, "Insufficient cash")
        ELSE Result([S EXCEPT !.all_companies[p].cash_musd = @ - cost_musd,
                              !.all_companies[p].rigs[i].transit_months_left = duration_months],
                    TRUE, "started mobilization")

\* Sim.mobilize_rig
MobilizeRig(S, rig_id, target_region) ==
    LET p == PlayerIdx(S)
        i == RigIndex(Player(S).rigs, rig_id)
        rig == Player(S).rigs[i]
        cost_musd == 2500
        duration_months == 1
    IN  IF i = 0 THEN Result(S, FALSE, "not found in your fleet")
        ELSE IF rig.on_contract_months_left > 0 THEN Result(S, FALSE, "is on contract")
        ELSE IF rig.region = target_region /\ rig.transit_months_left = 0
        THEN Result(S, FALSE, "is already in region")
        ELSE IF Player(S).cash_musd < cost_musd THEN Result(S, FALSE, "Insufficient cash")
        ELSE Result([S EXCEPT !.all_companies[p].cash_musd = @ - cost_musd,
                              !.all_companies[p].rigs[i].transit_months_left = duration_months,
                              !.all_companies[p].rigs[i].target_region = target_region],
                    TRUE, "started mobilization")

\* Sim.get_loan_info
GetLoanInfo(S) ==
    LET rigs == Player(S).rigs
        total_scrap == SumSeq([i \in 1..Len(rigs) |-> ScrapPayout(rigs[i])])
        max_debt == 100 * RoundDiv(total_scrap * 6, 1000)
    IN  [current_debt |-> Player(S).debt_musd,
         max_debt |-> max_debt,
         available |-> LET room == FloatSub(max_debt, Player(S).debt_musd)
                       IN  PyMax(0, IF IsNaN(room) THEN NaN ELSE 100 * RoundDiv(room, 100))]

\* Sim.take_loan
TakeLoan(S, amount_musd) ==
    LET p == PlayerIdx(S)
    IN  IF FloatLe(amount_musd, 0) THEN Result(S, FALSE, "Amount must be positive")
        ELSE IF FloatGt(amount_musd, GetLoanInfo(S).available)
        THEN Result(S, FALSE, "Borrowing limit exceeded")
        ELSE Result([S EXCEPT !.all_companies[p].debt_musd = FloatAdd(@, amount_musd),
                              !.all_companies[p].cash_musd = FloatAdd(@, amount_musd)],
                    TRUE, "Borrowed")

\* Sim.repay_loan
RepayLoan(S, amount_musd) ==
    LET p == PlayerIdx(S)
        payment == PyMin(amount_musd, Player(S).debt_musd)
    IN  IF FloatLe(amount_musd, 0) THEN Result(S, FALSE, "Amount must be positive")
        ELSE IF FloatGt(amount_musd, Player(S).cash_musd)
        THEN Result(S, FALSE, "Insufficient cash")
        ELSE IF FloatLe(payment, 0) THEN Result(S, FALSE, "No debt to repay")
        ELSE Result([S EXCEPT !.all_companies[p].cash_musd = FloatSub(@, payment),
                              !.all_companies[p].debt_musd = FloatSub(@, payment)],
                    TRUE, "Repaid")

-----------------------------------------------------------------------------
(* The state of a run *)

NoTwin == [active |-> FALSE]
NoAu == [phase |-> "off"]
NoChoice == [phase |-> "off"]

\* what the last operation was and what it answered
NoLast ==
    [op |-> "none", ok |-> TRUE, msg |-> "",
     awards |-> <<>>, player_wins |-> <<>>, bankrupt |-> FALSE]
LastCmd(op, r) == [NoLast EXCEPT !.op = op, !.ok = r.ok, !.msg = r.msg]

ListingIds(listing) == [i \in 1..Len(listing) |-> listing[i].rig.id]
RosterIds(rigs) == [i \in 1..Len(rigs) |-> rigs[i].id]

\* the ids of the rigs of the six Rig(...) calls of _make_player and _make_ai
InitialIds(S) == RosterIds(AllRigs(S.all_companies))

\* a faulty variant: the driver never sees a bankruptcy
NeverBankrupt(S) == FALSE

\* if self.player.cash_musd <= 0: the bankruptcy test of both drivers
Bankrupt(S) == Player(S).cash_musd <= 0

\* an entry of the call history
CallPrepare == [op |-> "prepare_turn", returned |-> TRUE, cash_after |-> 0]
CallResolve(r) ==
    [op |-> "resolve_turn", returned |-> ~r.fault, cash_after |-> Player(r.sim).cash_musd]

\* the file a save writes, with the histories of the game it belongs to and the
\* caller of save: resolve_turn and finalize, or the save command (by = "save")
FileOf(S, ids, aws, scr) ==
    [exists |-> TRUE, d |-> SimToDict(S), issued |-> ids, awarded |-> aws, scrapped |-> scr,
     by |-> "sim"]

\* history of a resolve_turn: for each award the player won, whether the rig
\* passed validate_bid against the tender when resolve_turn was entered
PlayerWins(S, awards) ==
    LET mine == SelectSeq(awards, LAMBDA a : a.winner = PlayerName)
    IN  [k \in 1..Len(mine) |->
            LET t == S.current_tenders[CHOOSE i \in 1..Len(S.current_tenders) :
                                          S.current_tenders[i].id = mine[k].tender_id]
                ri == RigIndex(Player(S).rigs, mine[k].rig_id)
            IN  [tender_id |-> mine[k].tender_id, rig_id |-> mine[k].rig_id,
                 eligible |-> ri # 0 /\ ValidateBid(t, Player(S).rigs[ri])]]

-----------------------------------------------------------------------------
(* cli.py: main *)

\* input choices of the command loop
BidRates == {-5, 60, 110}
LoanAmounts == {0, 1000, 500000}
StackWords == {"active", "warm", "cold"}
MobilizeRegions == {"NORTH_SEA", "GOM"}

\* state_map of the stack command
StateMap(word) == IF word = "active" THEN "ACTIVE" ELSE IF word = "warm" THEN "WARM" ELSE "COLD"

\* rig ids a player may type: the fleet and the listing (each is unknown to the
\* commands of the other)
RigIdChoices(S) ==
    SeqToSet(RosterIds(Player(S).rigs)) \cup SeqToSet(ListingIds(S.current_rigs_for_sale))
TenderIdChoices(S) == {S.current_tenders[i].id : i \in 1..Len(S.current_tenders)} \cup {0}

\* next((t for t in sim.current_tenders if t.id == t_id), None): 0 for None
TenderIndex(tenders, t_id) ==
    LET hits == {i \in 1..Len(tenders) : tenders[i].id = t_id}
    IN  IF hits = {} THEN 0 ELSE CHOOSE i \in hits : \A j \in hits : i <= j

\* [b for b in player_bids if b[0] != t_id]
RECURSIVE DropBids(_, _)
DropBids(pbids, t_id) ==
    IF pbids = <<>> THEN <<>>
    ELSE IF Head(pbids)[1] = t_id THEN DropBids(Tail(pbids), t_id)
    ELSE <<Head(pbids)>> \o DropBids(Tail(pbids), t_id)

\* the bid command when the bid is accepted: player_bids without the tuples of the tender,
\* then the new tuple
RecordBid(pbids, t_id, r_id, rate) == Append(DropBids(pbids, t_id), <<t_id, r_id, rate>>)

\* the bid command: nparts = 3 is "bid <t_id> <rate>", 4 is "bid <t_id> <r_id> <rate>"
BidCommand(S, pbids, nparts, t_id, r_id_in, rate) ==
    LET ti == TenderIndex(S.current_tenders, t_id)
        tender == S.current_tenders[ti]
        rigs == Player(S).rigs
        eligible == {i \in 1..Len(rigs) : ValidateBid(tender, rigs[i])}
        ri == RigIndex(rigs, r_id_in)
        r_id == IF nparts = 3 THEN rigs[CHOOSE i \in eligible : TRUE].id ELSE r_id_in
        Rejected(msg) == [bids |-> pbids, ok |-> FALSE, msg |-> msg]
    IN  IF ti = 0 THEN Rejected("Tender not found")
        ELSE IF nparts = 3 /\ Cardinality(eligible) = 0 THEN Rejected("no eligible rigs")
        ELSE IF nparts = 3 /\ Cardinality(eligible) > 1 THEN Rejected("Multiple rigs are eligible")
        ELSE IF nparts = 4 /\ ri = 0 THEN Rejected("Rig not found in your fleet")
        ELSE IF nparts = 4 /\ ~ValidateBid(tender, rigs[ri]) THEN Rejected("Invalid bid")
        ELSE [bids |-> RecordBid(pbids, t_id, r_id, rate), ok |-> TRUE, msg |-> "Bid recorded"]

\* main() up to the loop, without --load: Sim(SimConfig(seed, months)), prepare_turn()
CliStart ==
    /\ driver = "cli" /\ pc = "start"
    /\ \E S1 \in {PrepareTurn(sim)} :
          /\ sim' = S1
          /\ issued' = issued \o ListingIds(S1.current_rigs_for_sale)
    /\ pc' = "loop"
    /\ calls' = Append(calls, CallPrepare)
    /\ last' = [NoLast EXCEPT !.op = "prepare_turn"]
    /\ UNCHANGED <<driver, player_bids, savefile, ncmd, nload, awarded, scrapped, twin, au, choice>>

\* the next command: resolve_turn(player_bids), the bankruptcy test, prepare_turn.
\* A fault in resolve_turn ends the process; bankruptcy leaves the loop and finalize()
\* writes final_state.json
CliNext ==
    /\ driver = "cli" /\ pc = "loop"
    /\ sim.oil_market.month <= MaxMonth
    /\ \E r \in {ResolveTurn(sim, player_bids)} : \E S2 \in {PrepareTurn(r.sim)} :
       LET answer == [NoLast EXCEPT !.op = "resolve_turn", !.ok = ~r.fault,
                                    !.awards = r.awards,
                                    !.player_wins = PlayerWins(sim, r.awards)]
       IN  IF r.fault
           THEN /\ sim' = r.sim
                /\ pc' = "fault"
                /\ calls' = Append(calls, CallResolve(r))
                /\ last' = [answer EXCEPT !.msg = "StopIteration"]
                /\ awarded' = awarded \o r.applied
                /\ UNCHANGED <<player_bids, savefile, issued>>
           ELSE IF Bankrupt(r.sim)
           THEN /\ sim' = r.sim
                /\ pc' = "done"
                /\ calls' = Append(calls, CallResolve(r))
                /\ last' = [answer EXCEPT !.bankrupt = TRUE, !.msg = "BANKRUPT. Game over."]
                /\ player_bids' = <<>>
                /\ awarded' = awarded \o r.applied
                /\ savefile' = FileOf(r.sim, issued, awarded', scrapped)
                /\ UNCHANGED issued
           ELSE /\ sim' = S2
                /\ pc' = "loop"
                /\ calls' = calls \o <<CallResolve(r), CallPrepare>>
                /\ last' = answer
                /\ player_bids' = <<>>
                /\ awarded' = awarded \o r.applied
                /\ savefile' = FileOf(r.sim, issued, awarded', scrapped)
                /\ issued' = issued \o ListingIds(S2.current_rigs_for_sale)
    /\ UNCHANGED <<driver, ncmd, nload, scrapped, twin, au, choice>>

\* the frame of a command that only calls into the Sim
CommandFrame ==
    /\ driver = "cli" /\ pc = "loop" /\ ncmd < MaxCmds
    /\ ncmd' = ncmd + 1
    /\ UNCHANGED <<pc, driver, savefile, calls, nload, issued, awarded, twin, au, choice>>

CliBid ==
    /\ CommandFrame
    /\ \E nparts \in {3, 4}, t_id \in TenderIdChoices(sim),
          r_id \in RigIdChoices(sim) \cup {NoId}, rate \in BidRates :
          LET b == BidCommand(sim, player_bids, nparts, t_id, r_id, rate)
          IN  /\ (nparts = 3) = (r_id = NoId)
              /\ player_bids' = b.bids
              /\ last' = LastCmd("bid", b)
    /\ UNCHANGED <<sim, scrapped>>

CliBuy ==
    /\ CommandFrame
    /\ \E r_id \in RigIdChoices(sim) :
          LET r == BuyRig(sim, r_id)
          IN  sim' = r.sim /\ last' = LastCmd("buy_rig", r)
    /\ UNCHANGED <<player_bids, scrapped>>

CliStack ==
    /\ CommandFrame
    /\ \E r_id \in RigIdChoices(sim), word \in StackWords :
          LET r == UpdateRigState(sim, r_id, StateMap(word))
          IN  sim' = r.sim /\ last' = LastCmd("update_rig_state", r)
    /\ UNCHANGED <<player_bids, scrapped>>

\* reactivate: WARM goes to ACTIVE, anything else to WARM
CliReactivate ==
    /\ CommandFrame
    /\ \E r_id \in RigIdChoices(sim) :
          LET i == RigIndex(Player(sim).rigs, r_id)
              target_state == IF Player(sim).rigs[i].state = "WARM" THEN "ACTIVE" ELSE "WARM"
              r == UpdateRigState(sim, r_id, target_state)
          IN  IF i = 0
              THEN /\ sim' = sim
                   /\ last' = LastCmd("reactivate", Result(sim, FALSE, "Rig not found"))
              ELSE /\ sim' = r.sim
                   /\ last' = LastCmd("update_rig_state", r)
    /\ UNCHANGED <<player_bids, scrapped>>

CliMobilize ==
    /\ CommandFrame
    /\ \E r_id \in RigIdChoices(sim), target_reg \in MobilizeRegions :
          LET r == MobilizeRig(sim, r_id, target_reg)
          IN  sim' = r.sim /\ last' = LastCmd("mobilize_rig", r)
    /\ UNCHANGED <<player_bids, scrapped>>

\* scrap, confirmed with y
CliScrap ==
    /\ CommandFrame
    /\ \E r_id \in RigIdChoices(sim) :
          LET r == ScrapRig(sim, r_id)
          IN  /\ sim' = r.sim /\ last' = LastCmd("scrap_rig", r)
              /\ scrapped' = IF r.ok THEN scrapped \cup {r_id} ELSE scrapped
    /\ UNCHANGED player_bids

CliLoan ==
    /\ CommandFrame
    /\ \E amt \in LoanAmounts :
          LET r == TakeLoan(sim, amt)
          IN  sim' = r.sim /\ last' = LastCmd("take_loan", r)
    /\ UNCHANGED <<player_bids, scrapped>>

CliRepay ==
    /\ CommandFrame
    /\ \E amt \in LoanAmounts :
          LET r == RepayLoan(sim, amt)
          IN  sim' = r.sim /\ last' = LastCmd("repay_loan", r)
    /\ UNCHANGED <<player_bids, scrapped>>

\* save [path]: Sim.save
CliSave ==
    /\ driver = "cli" /\ pc = "loop" /\ ncmd < MaxCmds
    /\ ncmd' = ncmd + 1
    /\ savefile' = [FileOf(sim, issued, awarded, scrapped) EXCEPT !.by = "save"]
    /\ last' = [NoLast EXCEPT !.op = "save"]
    /\ UNCHANGED <<sim, pc, driver, player_bids, calls, nload, issued, awarded, scrapped, twin, au, choice>>

\* quit: the loop is left and finalize() writes final_state.json; a file that the save
\* command wrote stays on the disk beside it, and either may be the one loaded next
CliQuit ==
    /\ driver = "cli" /\ pc = "loop"
    /\ pc' = "done"
    /\ savefile' \in {FileOf(sim, issued, awarded, scrapped)}
                       \cup {f \in {savefile} : f.exists /\ f.by = "save"}
    /\ last' = [NoLast EXCEPT !.op = "quit"]
    /\ UNCHANGED <<sim, driver, player_bids, calls, ncmd, nload, issued, awarded, scrapped, twin, au, choice>>

\* a new process started with --load on a file of the disk: Sim.load, prepare_turn()
CliLoadStart ==
    /\ pc \in {"done", "fault"}
    /\ savefile.exists
    /\ nload < MaxLoads
    /\ \E S1 \in {PrepareTurn(SimLoad(savefile.d))} :
          /\ sim' = S1
          /\ issued' = savefile.issued \o ListingIds(S1.current_rigs_for_sale)
          /\ awarded' = savefile.awarded
          /\ scrapped' = savefile.scrapped
    /\ driver' = "cli"
    /\ pc' = "loop"
    /\ player_bids' = <<>>
    /\ calls' = <<CallPrepare>>
    /\ nload' = nload + 1
    /\ last' = [NoLast EXCEPT !.op = "load"]
    /\ UNCHANGED <<savefile, ncmd, twin, au, choice>>

-----------------------------------------------------------------------------
(* sim.py: Sim.run *)

\* one pass of the loop of Sim.run: prepare_turn, the auto-bids, resolve_turn, the
\* bankruptcy test; after the last pass or on bankruptcy finalize() writes the save
RunTurn ==
    /\ driver = "run" /\ pc \in {"start", "loop"}
    /\ Len(calls) < 2 * sim.cfg.months
    /\ \E S1 \in {PrepareTurn(sim)} : \E r \in {ResolveTurn(S1, AutoBids(S1, 1))} :
       LET ids == issued \o ListingIds(S1.current_rigs_for_sale)
           over == Bankrupt(r.sim) \/ Len(calls) + 2 >= 2 * sim.cfg.months
       IN  /\ sim' = r.sim
           /\ issued' = ids
           /\ calls' = calls \o <<CallPrepare, CallResolve(r)>>
           /\ last' = [NoLast EXCEPT !.op = "resolve_turn", !.ok = ~r.fault,
                                     !.awards = r.awards,
                                     !.player_wins = PlayerWins(S1, r.awards),
                                     !.bankrupt = Bankrupt(r.sim)]
           /\ pc' = IF r.fault THEN "fault" ELSE IF over THEN "done" ELSE "loop"
           /\ awarded' = awarded \o r.applied
           /\ savefile' = IF r.fault THEN savefile ELSE FileOf(r.sim, ids, awarded', scrapped)
    /\ UNCHANGED <<driver, player_bids, ncmd, nload, scrapped, twin, au, choice>>

-----------------------------------------------------------------------------
(* The drivers as a state machine *)

Init ==
    /\ \E seed \in Seeds : sim = SimInit(SimConfig(seed, MaxMonth))
    /\ driver \in {"cli", "run"}
    /\ pc = "start"
    /\ player_bids = <<>>
    /\ savefile = NoFile
    /\ last = NoLast
    /\ calls = <<>>
    /\ ncmd = 0
    /\ nload = 0
    /\ issued = InitialIds(sim)
    /\ awarded = <<>>
    /\ scrapped = {}
    /\ twin = NoTwin
    /\ choice = NoChoice
    /\ au = NoAu

Next ==
    \/ CliStart
    \/ CliNext
    \/ CliBid
    \/ CliBuy
    \/ CliStack
    \/ CliReactivate
    \/ CliMobilize
    \/ CliScrap
    \/ CliLoan
    \/ CliRepay
    \/ CliSave
    \/ CliQuit
    \/ CliLoadStart
    \/ RunTurn

Spec == Init /\ [][Next]_vars

-----------------------------------------------------------------------------
(* Save and load in the middle of a game: the Sim and its reloaded copy, turn by turn *)

SeedsSL == {158, 216}

\* the bid lists of a turn: none, or one bid that validate_bid accepts
SLBidLists(S) ==
    {<<>>} \cup
    {<<(<<S.current_tenders[i].id, Player(S).rigs[j].id, rate>>)>> :
        i \in {i \in 1..Len(S.current_tenders) :
                 \E j \in 1..Len(Player(S).rigs) :
                    ValidateBid(S.current_tenders[i], Player(S).rigs[j])},
        j \in 1..Len(Player(S).rigs), rate \in BidRates}

\* update_rig_state between two turns, on the Sim and on its copy
SLCommand ==
    /\ pc = "api" /\ ncmd < MaxCmds
    /\ \E r_id \in SeqToSet(RosterIds(Player(sim).rigs)), word \in StackWords :
          LET r == UpdateRigState(sim, r_id, StateMap(word))
          IN  /\ r.ok
              /\ sim' = r.sim
              /\ twin' = IF twin.active
                         THEN [twin EXCEPT !.sim = UpdateRigState(@, r_id, StateMap(word)).sim]
                         ELSE twin
              /\ last' = [last EXCEPT !.op = "update_rig_state"]
    /\ ncmd' = ncmd + 1
    /\ UNCHANGED <<pc, driver, player_bids, savefile, calls, nload, issued, awarded, scrapped, au, choice>>

\* one complete turn, prepare_turn then resolve_turn, with the same bids on both
SLTurn ==
    /\ pc = "api"
    /\ sim.oil_market.month < MaxMonth
    /\ \E S1 \in {PrepareTurn(sim)} :
          \E bids \in SLBidLists(S1) :
             \E r \in {ResolveTurn(S1, bids)},
                rt \in {IF twin.active THEN ResolveTurn(PrepareTurn(twin.sim), bids)
                                       ELSE [sim |-> sim, awards |-> <<>>, applied |-> <<>>]} :
                  /\ ~(\E i \in 1..Len(bids) :
                          ~ValidateBid(S1.current_tenders[TenderIndex(S1.current_tenders, bids[i][1])],
                                       Player(S1).rigs[RigIndex(Player(S1).rigs, bids[i][2])]))
                  /\ sim' = r.sim
                  /\ last' = [NoLast EXCEPT !.op = "resolve_turn", !.ok = ~r.fault,
                                            !.awards = r.awards]
                  /\ twin' = IF twin.active
                             THEN [active |-> TRUE, sim |-> rt.sim, awards |-> rt.awards,
                                   turns |-> twin.turns + 1]
                             ELSE twin
    /\ UNCHANGED <<pc, driver, player_bids, savefile, calls, ncmd, nload, issued, awarded, scrapped, au, choice>>

\* Sim.save followed by Sim.load of the file: the copy starts its life
SLSaveLoad ==
    /\ pc = "api" /\ ~twin.active
    /\ twin' = [active |-> TRUE, sim |-> SimLoad(SimToDict(sim)), awards |-> last.awards,
                turns |-> 0]
    /\ last' = [last EXCEPT !.op = "load"]
    /\ UNCHANGED <<sim, pc, driver, player_bids, savefile, calls, ncmd, nload, issued,
                   awarded, scrapped, au, choice>>

InitSL ==
    /\ \E seed \in SeedsSL : sim = SimInit(SimConfig(seed, MaxMonth))
    /\ driver = "api"
    /\ pc = "api"
    /\ player_bids = <<>>
    /\ savefile = NoFile
    /\ last = NoLast
    /\ calls = <<>>
    /\ ncmd = 0
    /\ nload = 0
    /\ issued = InitialIds(sim)
    /\ awarded = <<>>
    /\ scrapped = {}
    /\ twin = NoTwin
    /\ choice = NoChoice
    /\ au = NoAu

NextSL ==
    \/ SLCommand
    \/ SLTurn
    \/ SLSaveLoad

SpecSL == InitSL /\ [][NextSL]_vars

-----------------------------------------------------------------------------
(* The scoring and the award of _award_contracts for one tender, over a range of *)
(* companies and of lists of gathered bids                                       *)

\* the tenders of the first month of the seed-158 game (North Sea jack-up, 6 months and
\* 1 month) and its companies
AuSim == PrepareTurn(SimInit(SimConfig(158, MaxMonth)))
AuReputations == {50, 75}
AuRates == {60, 77, 78, 110}

\* the companies, the player's first rig as built (WARM) or reactivated
AuCompanies ==
    {[AuSim.all_companies EXCEPT ![1].reputation = rp, ![2].reputation = ra,
                                 ![3].reputation = rb, ![1].rigs[1].state = st] :
        rp \in AuReputations, ra \in AuReputations, rb \in AuReputations,
        st \in {"WARM", "ACTIVE"}}

AuTenders == SeqToSet(AuSim.current_tenders)

\* the list bids as the gathering loop builds it: the player's entry if any, then an
\* entry of each AI company in ai_companies order if any
AuBidLists ==
    LET cs == AuSim.all_companies
        Entries(k, rig_id) ==
            {<<>>} \cup {<<[company_name |-> cs[k].name, rig_id |-> rig_id, dayrate |-> rate]>> :
                             rate \in AuRates}
    IN  {p \o a \o b : p \in Entries(1, cs[1].rigs[1].id), a \in Entries(2, cs[2].rigs[1].id),
                        b \in Entries(3, cs[3].rigs[1].id)}

\* the player_bids a caller hands to resolve_turn: up to two tuples, on the same tender or
\* on different ones
AuBidTuples ==
    {<<t.id, r.id, rate>> : t \in AuTenders, r \in SeqToSet(AuSim.all_companies[1].rigs),
                           rate \in {60, 77}}
AuPlayerBids ==
    {<<>>} \cup {<<x>> : x \in AuBidTuples} \cup {<<x, y>> : x \in AuBidTuples, y \in AuBidTuples}

\* the loop body of _award_contracts for the tender, from the gathered bids on
AuAward ==
    /\ pc = "au" /\ au.phase = "in"
    /\ au' = [au EXCEPT !.phase = "out", !.res = AwardBids(au.cs, au.tender, au.bids)]
    /\ UNCHANGED <<sim, pc, driver, player_bids, savefile, last, calls, ncmd, nload, issued,
                   awarded, scrapped, twin, choice>>

\* the loop body of _award_contracts for the tender, from player_bids
AuTender ==
    /\ pc = "au" /\ au.phase = "in"
    /\ au' = [au EXCEPT !.phase = "tendered",
                        !.res = AwardTender(au.cs, au.tender, au.pbids)]
    /\ UNCHANGED <<sim, pc, driver, player_bids, savefile, last, calls, ncmd, nload, issued,
                   awarded, scrapped, twin, choice>>

\* a bid command of the command loop that validate_bid accepts
AuCliBid ==
    /\ pc = "au" /\ au.phase = "in" /\ au.src = "cli"
    /\ Len(au.sub) < AuMaxBids
    /\ \E t \in AuTenders, ri \in 1..Len(au.cs[1].rigs), rate \in AuRates :
          /\ ValidateBid(t, au.cs[1].rigs[ri])
          /\ au' = [au EXCEPT
                       !.pbids = RecordBid(au.pbids, t.id, au.cs[1].rigs[ri].id, rate),
                       !.sub = Append(au.sub, <<t.id, au.cs[1].rigs[ri].id, rate>>)]
    /\ UNCHANGED <<sim, pc, driver, player_bids, savefile, last, calls, ncmd, nload, issued,
                   awarded, scrapped, twin, choice>>

\* src: where player_bids comes from (the caller of resolve_turn, the command loop, or
\* no player at all and a list of gathered bids); sub: the tuples submitted, in order
InitAu ==
    /\ sim = AuSim
    /\ driver = "api"
    /\ pc = "au"
    /\ player_bids = <<>>
    /\ savefile = NoFile
    /\ last = NoLast
    /\ calls = <<>>
    /\ ncmd = 0
    /\ nload = 0
    /\ issued = InitialIds(sim)
    /\ awarded = <<>>
    /\ scrapped = {}
    /\ twin = NoTwin
    /\ choice = NoChoice
    /\ \E c \in AuCompanies, t \in AuTenders :
          \/ \E b \in AuBidLists :
                au = [phase |-> "in", cs |-> c, tender |-> t, bids |-> b, src |-> "bids",
                      pbids |-> <<>>, sub |-> <<>>,
                      res |-> [cs |-> c, awards |-> <<>>, fault |-> FALSE]]
          \/ \E pb \in AuPlayerBids :
                au = [phase |-> "in", cs |-> c, tender |-> t, bids |-> <<>>, src |-> "api",
                      pbids |-> pb, sub |-> pb,
                      res |-> [cs |-> c, awards |-> <<>>, fault |-> FALSE]]
          \/ au = [phase |-> "in", cs |-> c, tender |-> t, bids |-> <<>>, src |-> "cli",
                   pbids |-> <<>>, sub |-> <<>>,
                   res |-> [cs |-> c, awards |-> <<>>, fault |-> FALSE]]

NextAu == AuAward \/ AuTender \/ AuCliBid


SpecAu == InitAu /\ [][NextAu]_vars

-----------------------------------------------------------------------------
(* One call of choose_bid, over a range of companies, personalities and tenders *)

\* stream states the tender generator is started from
CbStreams == 1..256
\* oil_factor handed to the generator, in hundredths (bust, normal, boom)
CbOilFactors == {60, 100, 140}
\* cash of the bidding company, in $k: below the desperation cap, below the low-cash
\* cap, and above both
CbCash == {10000, 20000, 40000}

\* the tenders generate_tick can put out in a month, each with the state the shared
\* stream is in after it
CbDraws ==
    {GenerateTender(s0, 1, <<"NORTH_SEA", "GOM">>, [year |-> 2025, month |-> 2], f) :
        s0 \in CbStreams, f \in CbOilFactors}

\* the AI companies of a new Sim, with their first rig idle or on a contract
CbCompanies ==
    UNION {{[c EXCEPT !.cash_musd = cash],
            [c EXCEPT !.cash_musd = cash,
                      !.rigs[1] = [@ EXCEPT !.on_contract_months_left = 3,
                                            !.contract_dayrate = 100,
                                            !.contract_id = 7]]} :
           c \in SeqToSet(MakeAi(SimConfig(158, MaxMonth))), cash \in CbCash}

\* the two personalities of Sim.__init__ and a desperate one
CbPersonalities ==
    {AiPersonalities(AiNameA), AiPersonalities(AiNameB),
     [aggressiveness |-> 90, desperation |-> 90, quality_bias |-> 50]}

\* the call, and the call again on what the call before left
CbChoose ==
    /\ pc = "cb" /\ choice.phase \in {"in", "chosen"}
    /\ choice.n < CbMaxCalls
    /\ \E left \in {ChooseBidLeaves(choice.company, choice.personality, choice.tender,
                                      choice.rng)} :
          choice' = [choice EXCEPT !.phase = "chosen",
                                   !.n = @ + 1,
                                   !.bid = ChooseBid(choice.company, choice.personality,
                                                     choice.tender),
                                   !.company = left.company,
                                   !.tender = left.tender,
                                   !.rng = left.rng]
    /\ UNCHANGED <<sim, pc, driver, player_bids, savefile, last, calls, ncmd, nload, issued,
                   awarded, scrapped, twin, au>>

\* the pricing of the call alone, with a rig of the roster as candidates[0]
CbPrice ==
    /\ pc = "cb" /\ choice.phase = "in"
    /\ choice' = [choice EXCEPT !.phase = "priced",
                                !.bid = AiPrice(choice.company, choice.personality,
                                                choice.tender, choice.company.rigs[choice.rig])]
    /\ UNCHANGED <<sim, pc, driver, player_bids, savefile, last, calls, ncmd, nload, issued,
                   awarded, scrapped, twin, au>>

InitCb ==
    /\ sim = SimInit(SimConfig(158, MaxMonth))
    /\ driver = "api"
    /\ pc = "cb"
    /\ player_bids = <<>>
    /\ savefile = NoFile
    /\ last = NoLast
    /\ calls = <<>>
    /\ ncmd = 0
    /\ nload = 0
    /\ issued = InitialIds(sim)
    /\ awarded = <<>>
    /\ scrapped = {}
    /\ twin = NoTwin
    /\ au = NoAu
    /\ \E c \in CbCompanies, p \in CbPersonalities, d \in CbDraws :
          \E k \in 1..Len(c.rigs) :
             choice = [phase |-> "in", company |-> c, personality |-> p, tender |-> d.tender,
                       rng |-> d.rng, rig |-> k, bid |-> NoBid, n |-> 0,
                       before |-> [company |-> c, tender |-> d.tender, rng |-> d.rng]]

NextCb == CbChoose \/ CbPrice

SpecCb == InitCb /\ [][NextCb]_vars

-----------------------------------------------------------------------------
(* One call of validate_bid and of _player_auto_bid, over a range of player rosters *)
(* and tenders                                                                     *)

\* stream states the tender and the listed rig are generated from (the rigs: jack-ups,
\* semis and drillships of condition 58 to 90)
VbStreams == 1..64
VbRigStreams == {8, 9, 33, 37, 38, 62, 65, 76}

VbTenders ==
    {GenerateTender(s0, 1, <<"NORTH_SEA", "GOM">>, [year |-> 2025, month |-> 2], f).tender :
        s0 \in VbStreams, f \in CbOilFactors}

\* the player's first rig: as built (WARM), reactivated, on a contract, in transit
VbFirstRigs ==
    LET r == AuSim.all_companies[1].rigs[1]
    IN  {r, [r EXCEPT !.state = "ACTIVE"],
         [r EXCEPT !.state = "ACTIVE", !.on_contract_months_left = 3,
                   !.contract_dayrate = 100, !.contract_id = 7],
         [r EXCEPT !.state = "ACTIVE", !.transit_months_left = 1, !.target_region = "GOM"]}

\* the player's second rig: as built (COLD), reactivated
VbSecondRigs ==
    LET r == AuSim.all_companies[1].rigs[2]
    IN  {r, [r EXCEPT !.state = "ACTIVE"]}

\* a rig bought from the listing, moved to a region with tenders and reactivated
VbBoughtRigs ==
    {[GenerateOne(s0, 1000, 2025, 800).fs.rig EXCEPT !.company_id = 1, !.region = reg,
                                                     !.state = "ACTIVE"] :
        s0 \in VbRigStreams, reg \in {"NORTH_SEA", "GOM"}}

VbRosters ==
    {<<a, b>> : a \in VbFirstRigs, b \in VbSecondRigs}
    \cup {<<a, b, c>> : a \in VbFirstRigs, b \in VbSecondRigs, c \in VbBoughtRigs}

\* validate_bid(tender, rig) for a rig of the roster
VbValidate ==
    /\ pc = "vb" /\ choice.phase = "in"
    /\ choice' = [choice EXCEPT
                     !.phase = "validated",
                     !.ok = ValidateBid(choice.tender, Player(sim).rigs[choice.rig]),
                     !.msg = ValidateBidReason(choice.tender, Player(sim).rigs[choice.rig])]
    /\ UNCHANGED <<sim, pc, driver, player_bids, savefile, last, calls, ncmd, nload, issued,
                   awarded, scrapped, twin, au>>

\* _player_auto_bid(tender)
VbAuto ==
    /\ pc = "vb" /\ choice.phase = "in"
    /\ choice' = [choice EXCEPT !.phase = "auto", !.bid = PlayerAutoBid(sim, choice.tender)]
    /\ UNCHANGED <<sim, pc, driver, player_bids, savefile, last, calls, ncmd, nload, issued,
                   awarded, scrapped, twin, au>>

InitVb ==
    /\ \E roster \in VbRosters : sim = [AuSim EXCEPT !.all_companies[1].rigs = roster]
    /\ driver = "api"
    /\ pc = "vb"
    /\ player_bids = <<>>
    /\ savefile = NoFile
    /\ last = NoLast
    /\ calls = <<>>
    /\ ncmd = 0
    /\ nload = 0
    /\ issued = InitialIds(sim)
    /\ awarded = <<>>
    /\ scrapped = {}
    /\ twin = NoTwin
    /\ au = NoAu
    /\ \E t \in VbTenders : \E k \in 1..Len(Player(sim).rigs) :
          choice = [phase |-> "in", tender |-> t, rig |-> k, ok |-> FALSE, msg |-> "",
                    bid |-> NoBid]

NextVb == VbValidate \/ VbAuto

SpecVb == InitVb /\ [][NextVb]_vars

-----------------------------------------------------------------------------
(* One call of Sim.load, on save files that lack a field *)

\* seeds of the games whose first-month save is the file
LdSeeds == 150..161

\* the dict d without the key k
Without(d, k) == [x \in DOMAIN d \ {k} |-> d[x]]

\* what the file lacks: nothing, a key of the save, a key of its i-th company, or its
\* i-th rig while a company still refers to it
LdDamages ==
    {[kind |-> k, at |-> 0] : k \in {"none", "rig_id_seq", "rigs"}}
    \cup {[kind |-> k, at |-> i] : k \in {"cash_musd", "debt_musd", "reputation"}, i \in 1..3}
    \cup {[kind |-> "rig", at |-> i] : i \in 1..6}

Damaged(d, dmg) ==
    IF dmg.kind = "none" THEN d
    ELSE IF dmg.kind \in {"rig_id_seq", "rigs"} THEN Without(d, dmg.kind)
    ELSE IF dmg.kind = "rig"
         THEN [d EXCEPT !.rigs = SelectSeq(d.rigs, LAMBDA r : r.id # d.rigs[dmg.at].id)]
    ELSE [d EXCEPT !.companies[dmg.at] = Without(@, dmg.kind)]

\* Sim.load(path)
LdLoad ==
    /\ pc = "ld" /\ choice.phase = "in"
    /\ choice' = [choice EXCEPT
                     !.phase = "loaded",
                     !.raised = SimLoadRaises(savefile.d),
                     !.sim = IF SimLoadRaises(savefile.d) THEN NoId ELSE SimLoad(savefile.d)]
    /\ UNCHANGED <<sim, pc, driver, player_bids, savefile, last, calls, ncmd, nload, issued,
                   awarded, scrapped, twin, au>>

InitLd ==
    /\ \E seed \in LdSeeds : sim = PrepareTurn(SimInit(SimConfig(seed, MaxMonth)))
    /\ driver = "api"
    /\ pc = "ld"
    /\ player_bids = <<>>
    /\ last = NoLast
    /\ calls = <<>>
    /\ ncmd = 0
    /\ nload = 0
    /\ issued = InitialIds(sim)
    /\ awarded = <<>>
    /\ scrapped = {}
    /\ twin = NoTwin
    /\ au = NoAu
    /\ \E dmg \in LdDamages :
          /\ savefile = [exists |-> TRUE, d |-> Damaged(SimToDict(sim), dmg), issued |-> issued,
                         awarded |-> <<>>, scrapped |-> {}]
          /\ choice = [phase |-> "in", damage |-> dmg, raised |-> FALSE, sim |-> NoId]

NextLd == LdLoad

SpecLd == InitLd /\ [][NextLd]_vars

-----------------------------------------------------------------------------
(* A caller of the Sim's methods that is not one of the two drivers: prepare_turn, *)
(* resolve_turn, update_rig_state, save and load in any order                       *)

\* seeds of the games: months of no, one, two and three tenders
RtSeeds == {152, 158, 170}

\* Sim.prepare_turn; the ids of the tenders it returned and the counter before and after
\* the call are added to the history
RtPrepare ==
    /\ pc \in {"rt", "mk"}
    /\ sim.oil_market.month < MaxMonth
    /\ \E S1 \in {PrepareTurn(sim)} :
          /\ sim' = S1
          /\ issued' = issued \o ListingIds(S1.current_rigs_for_sale)
          /\ choice' = [choice EXCEPT
                           !.ticks = Append(@, [before |-> sim.contract_id_seq,
                                                ids |-> [i \in 1..Len(S1.current_tenders) |->
                                                            S1.current_tenders[i].id],
                                                after |-> S1.contract_id_seq]),
                           !.seqs = Append(@, [op |-> "prepare_turn",
                                               seq |-> S1.contract_id_seq])]
    /\ calls' = Append(calls, CallPrepare)
    /\ last' = [NoLast EXCEPT !.op = "prepare_turn"]
    /\ UNCHANGED <<pc, driver, player_bids, savefile, ncmd, nload, awarded, scrapped, twin, au>>

\* Sim.resolve_turn with no bid or one bid that validate_bid accepts at the call; the
\* awards it returned are added to the history, one entry per call
RtResolve ==
    /\ pc \in {"rt", "mk"}
    /\ Len(choice.rounds) < RtMaxResolves
    /\ \E bids \in SLBidLists(sim) : \E r \in {ResolveTurn(sim, bids)} :
          /\ \A i \in 1..Len(bids) :
                ValidateBid(sim.current_tenders[TenderIndex(sim.current_tenders, bids[i][1])],
                            Player(sim).rigs[RigIndex(Player(sim).rigs, bids[i][2])])
          /\ ~r.fault
          /\ sim' = r.sim
          /\ choice' = [choice EXCEPT !.rounds = Append(@, r.awards)]
          /\ calls' = Append(calls, CallResolve(r))
          /\ awarded' = awarded \o r.applied
          /\ last' = [NoLast EXCEPT !.op = "resolve_turn", !.awards = r.awards]
    /\ UNCHANGED <<pc, driver, player_bids, savefile, ncmd, nload, issued, scrapped, twin, au>>

\* Sim.update_rig_state on a rig of the player
RtCommand ==
    /\ pc = "rt" /\ ncmd < MaxCmds
    /\ \E r_id \in SeqToSet(RosterIds(Player(sim).rigs)), word \in StackWords :
          LET r == UpdateRigState(sim, r_id, StateMap(word))
          IN  /\ r.ok
              /\ sim' = r.sim
              /\ last' = LastCmd("update_rig_state", r)
    /\ ncmd' = ncmd + 1
    /\ UNCHANGED <<pc, driver, player_bids, savefile, calls, nload, issued, awarded, scrapped,
                   twin, au, choice>>

\* Sim.save followed by Sim.load of the file: the caller goes on with the restored Sim
RtSaveLoad ==
    /\ pc \in {"rt", "mk"} /\ nload < MaxLoads
    /\ sim' = SimLoad(SimToDict(sim))
    /\ savefile' = FileOf(sim, issued, awarded, scrapped)
    /\ nload' = nload + 1
    /\ choice' = [choice EXCEPT !.seqs = Append(@, [op |-> "load", seq |-> sim'.contract_id_seq])]
    /\ last' = [NoLast EXCEPT !.op = "load"]
    /\ UNCHANGED <<pc, driver, player_bids, calls, ncmd, issued, awarded, scrapped, twin, au>>

InitRt ==
    /\ \E seed \in RtSeeds : sim = SimInit(SimConfig(seed, MaxMonth))
    /\ driver = "api"
    /\ pc = "rt"
    /\ player_bids = <<>>
    /\ savefile = NoFile
    /\ last = NoLast
    /\ calls = <<>>
    /\ ncmd = 0
    /\ nload = 0
    /\ issued = InitialIds(sim)
    /\ awarded = <<>>
    /\ scrapped = {}
    /\ twin = NoTwin
    /\ au = NoAu
    /\ choice = [phase |-> "rt", rounds |-> <<>>, ticks |-> <<>>,
                 seqs |-> <<[op |-> "init", seq |-> sim.contract_id_seq]>>]

NextRt ==
    \/ RtPrepare
    \/ RtResolve
    \/ RtCommand
    \/ RtSaveLoad

SpecRt == InitRt /\ [][NextRt]_vars

-----------------------------------------------------------------------------
(* The resale market over the months: a caller that buys from the listing between the *)
(* turns                                                                               *)

\* seeds of the games: two rigs listed in the first month, one of them within the
\* player's cash, then none, two and one in the second month
MkSeeds == {158, 159, 160}

\* Sim.buy_rig on a rig of the listing
RtBuy ==
    /\ pc = "mk" /\ ncmd < MaxCmds
    /\ \E r_id \in SeqToSet(ListingIds(sim.current_rigs_for_sale)) :
          LET r == BuyRig(sim, r_id)
          IN  /\ sim' = r.sim
              /\ last' = LastCmd("buy_rig", r)
    /\ ncmd' = ncmd + 1
    /\ UNCHANGED <<pc, driver, player_bids, savefile, calls, nload, issued, awarded, scrapped,
                   twin, au, choice>>

InitMk ==
    /\ \E seed \in MkSeeds : sim = SimInit(SimConfig(seed, MaxMonth))
    /\ driver = "api"
    /\ pc = "mk"
    /\ player_bids = <<>>
    /\ savefile = NoFile
    /\ last = NoLast
    /\ calls = <<>>
    /\ ncmd = 0
    /\ nload = 0
    /\ issued = InitialIds(sim)
    /\ awarded = <<>>
    /\ scrapped = {}
    /\ twin = NoTwin
    /\ au = NoAu
    /\ choice = [phase |-> "rt", rounds |-> <<>>, ticks |-> <<>>,
                 seqs |-> <<[op |-> "init", seq |-> sim.contract_id_seq]>>]

NextMk ==
    \/ RtPrepare
    \/ RtResolve
    \/ RtSaveLoad
    \/ RtBuy

SpecMk == InitMk /\ [][NextMk]_vars

-----------------------------------------------------------------------------
(* The two markets stepped month after month, as prepare_turn steps them, with the *)
(* record of every price                                                           *)

\* seeds of the shared stream
MtSeeds == 1..8

\* oil_market.step_month() and steel_market.step_month(); the prices of the month are
\* added to the record
MtStep ==
    /\ pc = "mt"
    /\ sim.oil_market.month < MtMaxMonths
    /\ \E s1 \in {RngNext(sim.rng)} : \E s2 \in {RngNext(s1)} :
       \E oil \in {OilStepMonth(sim.oil_market, s1)},
          steel \in {SteelStepMonth(sim.steel_market, s2)} :
          /\ sim' = [sim EXCEPT !.rng = s2, !.oil_market = oil, !.steel_market = steel]
          /\ choice' = [choice EXCEPT !.oil_prices = Append(@, oil.oil_price),
                                      !.steel_prices = Append(@, steel.steel_price)]
    /\ last' = [NoLast EXCEPT !.op = "step_month"]
    /\ UNCHANGED <<pc, driver, player_bids, savefile, calls, ncmd, nload, issued, awarded,
                   scrapped, twin, au>>

InitMt ==
    /\ \E seed \in MtSeeds : sim = SimInit(SimConfig(seed, MtMaxMonths))
    /\ driver = "api"
    /\ pc = "mt"
    /\ player_bids = <<>>
    /\ savefile = NoFile
    /\ last = NoLast
    /\ calls = <<>>
    /\ ncmd = 0
    /\ nload = 0
    /\ issued = InitialIds(sim)
    /\ awarded = <<>>
    /\ scrapped = {}
    /\ twin = NoTwin
    /\ au = NoAu
    /\ choice = [phase |-> "mt", oil_prices |-> <<>>, steel_prices |-> <<>>]

NextMt == MtStep

SpecMt == InitMt /\ [][NextMt]_vars

-----------------------------------------------------------------------------
(* The loan desk on its own: take_loan and repay_loan called on the new game with  *)
(* the amounts the loan and repay commands can hand over, each call recorded with  *)
(* the amount and the cash, debt and borrowing room it found                       *)

\* float(parts[1]) of the commands: negative, zero, within and beyond the borrowing
\* room and the cash, and nan
LnAmounts == {NaN, -1000, 0, 500, 1000, 2000, 60000}

LnCall(op, amt) ==
    [phase |-> "ln", op |-> op, amount |-> amt,
     cash |-> Player(sim).cash_musd, debt |-> Player(sim).debt_musd,
     available |-> GetLoanInfo(sim).available]

\* loan <amount>: Sim.take_loan
LnLoan ==
    /\ pc = "ln" /\ ncmd < LnMaxCmds
    /\ \E amt \in LnAmounts :
          LET r == TakeLoan(sim, amt)
          IN  /\ sim' = r.sim
              /\ last' = LastCmd("take_loan", r)
              /\ choice' = LnCall("take_loan", amt)
    /\ ncmd' = ncmd + 1
    /\ UNCHANGED <<pc, driver, player_bids, savefile, calls, nload, issued, awarded, scrapped,
                   twin, au>>

\* repay <amount>: Sim.repay_loan
LnRepay ==
    /\ pc = "ln" /\ ncmd < LnMaxCmds
    /\ \E amt \in LnAmounts :
          LET r == RepayLoan(sim, amt)
          IN  /\ sim' = r.sim
              /\ last' = LastCmd("repay_loan", r)
              /\ choice' = LnCall("repay_loan", amt)
    /\ ncmd' = ncmd + 1
    /\ UNCHANGED <<pc, driver, player_bids, savefile, calls, nload, issued, awarded, scrapped,
                   twin, au>>

InitLn ==
    /\ sim = SimInit(SimConfig(158, MaxMonth))
    /\ driver = "api"
    /\ pc = "ln"
    /\ player_bids = <<>>
    /\ savefile = NoFile
    /\ last = NoLast
    /\ calls = <<>>
    /\ ncmd = 0
    /\ nload = 0
    /\ issued = InitialIds(sim)
    /\ awarded = <<>>
    /\ scrapped = {}
    /\ twin = NoTwin
    /\ au = NoAu
    /\ choice = [phase |-> "ln", op |-> "none", amount |-> 0,
                 cash |-> Player(sim).cash_musd, debt |-> Player(sim).debt_musd,
                 available |-> GetLoanInfo(sim).available]

NextLn ==
    \/ LnLoan
    \/ LnRepay

SpecLn == InitLn /\ [][NextLn]_vars

-----------------------------------------------------------------------------
(* One call of ContractGenerator.generate_tick, over a range of streams, factors and *)
(* counters                                                                           *)

\* stream states the generator is started from
GtStreams == 1..256
\* oil_factor, in hundredths.  The Sim passes oil_price / mean_price, from 25/70 to
\* 140/70; the parameter itself is open and 20 is a caller's value below that range
GtOilFactors == {20, 35, 60, 100, 140, 200}
\* demand_factor, in hundredths: the two ends of the clamp of step_month and the middle
GtDemandFactors == {40, 100, 180}
\* next_contract_id: a new game, a game under way
GtCounters == {1, 12}

\* the call
GtTick ==
    /\ pc = "gt" /\ choice.phase = "in"
    /\ \E g \in {GenerateTick(choice.s0, <<"NORTH_SEA", "GOM">>, choice.next_contract_id,
                               [year |-> 2025, month |-> 2], choice.oil_factor,
                               choice.demand_factor)} :
          choice' = [choice EXCEPT !.phase = "ticked", !.out = g.out, !.cid = g.cid]
    /\ UNCHANGED <<sim, pc, driver, player_bids, savefile, last, calls, ncmd, nload, issued,
                   awarded, scrapped, twin, au>>

InitGt ==
    /\ sim = SimInit(SimConfig(158, MaxMonth))
    /\ driver = "api"
    /\ pc = "gt"
    /\ player_bids = <<>>
    /\ savefile = NoFile
    /\ last = NoLast
    /\ calls = <<>>
    /\ ncmd = 0
    /\ nload = 0
    /\ issued = InitialIds(sim)
    /\ awarded = <<>>
    /\ scrapped = {}
    /\ twin = NoTwin
    /\ au = NoAu
    /\ \E s0 \in GtStreams, f \in GtOilFactors, df \in GtDemandFactors, cid \in GtCounters :
          choice = [phase |-> "in", s0 |-> s0, oil_factor |-> f, demand_factor |-> df,
                    next_contract_id |-> cid, out |-> <<>>, cid |-> NoId]

NextGt == GtTick

SpecGt == InitGt /\ [][NextGt]_vars

-----------------------------------------------------------------------------
(* Properties *)

\* C1: a Sim saved and reloaded after N turns, and run M more turns with the same
\* player bids, shows at each of those turns the same oil price, player cash,
\* contract_id_seq and awards as the Sim that was never saved
C1_SaveLoadReplay ==
    twin.active /\ twin.turns > 0 =>
        /\ twin.sim.oil_market.oil_price = sim.oil_market.oil_price
        /\ Player(twin.sim).cash_musd = Player(sim).cash_musd
        /\ twin.sim.contract_id_seq = sim.contract_id_seq
        /\ twin.awards = last.awards

\* C2: a tender with no bid gathered lapses with nothing changed; otherwise the winner
\* is a bid of the least score day_rate + (1 - reputation) * 4.0, and of the bids of
\* that score the one gathered first (the player's, then the AI companies' in their
\* order)
C2_LowestScoreFirstGathered ==
    au.phase = "out" =>
        LET cs == au.cs
            bids == au.bids
            Rep(name) == (CHOOSE c \in SeqToSet(cs) : c.name = name).reputation
            Sc(i) == bids[i].dayrate * 100 + (100 - Rep(bids[i].company_name)) * 4
        IN  IF bids = <<>>
            THEN au.res.awards = <<>> /\ au.res.cs = cs /\ ~au.res.fault
            ELSE \E w \in 1..Len(bids) :
                    /\ \A j \in 1..Len(bids) : Sc(w) <= Sc(j)
                    /\ \A j \in 1..(w - 1) : Sc(j) > Sc(w)
                    /\ ~au.res.fault
                    /\ Len(au.res.awards) = 1
                    /\ au.res.awards[1].winner = bids[w].company_name
                    /\ au.res.awards[1].rig_id = bids[w].rig_id
                    /\ au.res.awards[1].dayrate_k = bids[w].dayrate

\* an award among bids of which two or more share the least score
C2_Witness ==
    /\ au.phase = "out"
    /\ Len(au.res.awards) = 1
    /\ \E i \in 1..Len(au.bids), j \in 1..Len(au.bids) :
          /\ i < j
          /\ Score(au.cs, au.bids[i]) = Score(au.cs, au.bids[j])
          /\ \A k \in 1..Len(au.bids) : Score(au.cs, au.bids[i]) <= Score(au.cs, au.bids[k])

C4_IneligiblePlayerBidNeverWins ==
    \A k \in 1..Len(last.player_wins) : last.player_wins[k].eligible

\* C5: one _settle_month_cashflows changes each company's cash by the day-rates of
\* its contracted rigs, less their opex, less the stacking cost of its idle rigs, less
\* 1% of its debt, all for 30 days in $k, and leaves the debt as it was
C5_SettlementExact ==
    LET year == CurrentYear(sim)
        Stacking(r) ==
            IF r.state = "ACTIVE" THEN (IF r.rig_type = "JACKUP" THEN 850 ELSE 1400)
            ELSE IF r.state = "WARM" THEN (IF r.rig_type = "JACKUP" THEN 450 ELSE 750)
            ELSE IF r.state = "COLD" THEN 180
            ELSE 0
        Delta(r) ==
            IF r.state = "SCRAP" THEN 0
            ELSE IF r.on_contract_months_left > 0
            THEN r.contract_dayrate * 30 - OpexPerDayK(r, year) * 30
            ELSE 0 - Stacking(r)
        Exact(cs, out) ==
            /\ Len(out) = Len(cs)
            /\ \A i \in 1..Len(cs) :
                  /\ out[i].debt_musd = cs[i].debt_musd
                  /\ out[i].cash_musd =
                        cs[i].cash_musd
                        + SumSeq([k \in 1..Len(cs[i].rigs) |-> Delta(cs[i].rigs[k])])
                        - (IF cs[i].debt_musd > 0 THEN cs[i].debt_musd \div 100 ELSE 0)
        Settles(cs) == Exact(cs, SettleMonthCashflows(cs, year))
        AfterAwards(aw) == aw.fault \/ Settles(aw.cs)
    IN  /\ Settles(sim.all_companies)
        /\ pc = "loop" =>
              AfterAwards(AwardContracts(sim.all_companies, sim.current_tenders, 1, player_bids))

\* the player settled a month with debt, a rig on contract and an idle rig
C5_Witness ==
    /\ last.op = "resolve_turn" /\ last.ok
    /\ Player(sim).debt_musd > 0
    /\ \E k \in 1..Len(Player(sim).rigs) : Player(sim).rigs[k].on_contract_months_left > 0
    /\ \E k \in 1..Len(Player(sim).rigs) : Player(sim).rigs[k].on_contract_months_left = 0

\* C6: update_rig_state succeeds exactly for a rig of the player's roster that is off
\* contract, with a new state of ACTIVE/WARM/COLD other than its own, and cash for the
\* documented cost; it then sets the state and deducts that cost; otherwise nothing
\* changes
C6_UpdateRigStateTable ==
    LET Cost(r, to) ==
            LET cw == IF r.rig_type = "JACKUP" THEN 1200 ELSE 3500
                wa == IF r.rig_type = "JACKUP" THEN 300 ELSE 800
            IN  IF r.state = "COLD" /\ to = "WARM" THEN cw
                ELSE IF r.state = "WARM" /\ to = "ACTIVE" THEN wa
                ELSE IF r.state = "ACTIVE" /\ to = "WARM" THEN 50
                ELSE IF r.state = "WARM" /\ to = "COLD" THEN 200
                ELSE IF r.state = "COLD" /\ to = "ACTIVE" THEN cw + wa
                ELSE 50 + 200
        Outcome(rid, to, res) ==
            LET p == PlayerIdx(sim)
                hits == {k \in 1..Len(Player(sim).rigs) : Player(sim).rigs[k].id = rid}
                k == CHOOSE k \in hits : TRUE
                r == Player(sim).rigs[k]
                legal == /\ hits # {}
                         /\ r.on_contract_months_left = 0
                         /\ to \in {"ACTIVE", "WARM", "COLD"}
                         /\ to # r.state
                         /\ Player(sim).cash_musd >= Cost(r, to)
            IN  /\ res.ok = legal
                /\ res.sim = IF legal
                             THEN [sim EXCEPT !.all_companies[p].rigs[k].state = to,
                                              !.all_companies[p].cash_musd = @ - Cost(r, to)]
                             ELSE sim
    IN  \A rid \in RigIdChoices(sim) \cup {101}, to \in RigStates :
            Outcome(rid, to, UpdateRigState(sim, rid, to))

\* a transition was made and paid for
C6_Witness ==
    /\ last.op = "update_rig_state" /\ last.ok
    /\ \E k \in 1..Len(Player(sim).rigs) :
          Player(sim).rigs[k].id = 2 /\ Player(sim).rigs[k].state = "ACTIVE"

\* C7: a rejected buy_rig, update_rig_state, scrap_rig, mobilize_rig, take_loan or
\* repay_loan answers (False, message) and leaves the whole Sim as it was
C7_RejectedCommandChangesNothing ==
    LET Kept(res) == ~res.ok => res.sim = sim /\ res.msg # ""
    IN  /\ \A rid \in RigIdChoices(sim) \cup {101} :
              /\ Kept(BuyRig(sim, rid))
              /\ Kept(ScrapRig(sim, rid))
              /\ \A to \in RigStates : Kept(UpdateRigState(sim, rid, to))
              /\ \A reg \in SeqToSet(Regions) : Kept(MobilizeRig(sim, rid, reg))
        /\ \A amt \in LoanAmounts \cup {-1000} :
              Kept(TakeLoan(sim, amt)) /\ Kept(RepayLoan(sim, amt))

\* a purchase was rejected for lack of cash
C7_Witness ==
    /\ last.op = "buy_rig" /\ ~last.ok
    /\ \E m \in 1..Len(sim.current_rigs_for_sale) :
          sim.current_rigs_for_sale[m].price_musd > Player(sim).cash_musd

\* C8: no roster holds a rig id twice, no rig id is in two rosters, the rig ids issued
\* in a game (fleets, listings, purchases) are pairwise distinct, and within a process
\* rig_id_seq never decreases
C8_RigIdsUnique ==
    /\ [](LET NoDup(q) == \A a \in 1..Len(q), b \in 1..Len(q) : q[a] = q[b] => a = b
              cs == sim.all_companies
              ids(i) == SeqToSet(RosterIds(cs[i].rigs))
          IN  /\ \A i \in 1..Len(cs) : NoDup(RosterIds(cs[i].rigs))
              /\ \A i \in 1..Len(cs), j \in 1..Len(cs) : i # j => ids(i) \cap ids(j) = {}
              /\ NoDup(issued)
              /\ \A i \in 1..Len(cs) : ids(i) \subseteq SeqToSet(issued)
              /\ SeqToSet(ListingIds(sim.current_rigs_for_sale)) \subseteq SeqToSet(issued))
    /\ [][nload' = nload => sim'.rig_id_seq >= sim.rig_id_seq]_vars

\* a restored game in which the player owns a purchased rig and has scrapped another
C8_Witness ==
    /\ nload = 1
    /\ \E k \in 1..Len(Player(sim).rigs) : Player(sim).rigs[k].id >= 1000
    /\ \A k \in 1..Len(Player(sim).rigs) : Player(sim).rigs[k].id # 2

\* C9: Sim.load of the file Sim.save wrote gives back the month, both markets, every
\* company with its roster, every attribute of every rig, both id counters, the resale
\* listing, both random states and the tender generator's configuration
C9_LoadRestoresSavedState ==
    LET loaded == SimLoad(SimToDict(sim))
    IN  /\ loaded.oil_market = sim.oil_market
        /\ loaded.steel_market = sim.steel_market
        /\ loaded.all_companies = sim.all_companies
        /\ loaded.contract_id_seq = sim.contract_id_seq
        /\ loaded.rig_id_seq = sim.rig_id_seq
        /\ loaded.current_rigs_for_sale = sim.current_rigs_for_sale
        /\ loaded.rng = sim.rng
        /\ loaded.rig_market_gen = sim.rig_market_gen
        /\ loaded.contract_gen = sim.contract_gen

\* C10: in a process prepare_turn and resolve_turn alternate, prepare_turn first, and
\* a resolve_turn that leaves the player's cash at or below 0 is the last call: the
\* driver reports the bankruptcy and stops
C10_AlternationAndBankruptcyStop ==
    \A i \in 1..Len(calls) :
        /\ calls[i].op = (IF i % 2 = 1 THEN "prepare_turn" ELSE "resolve_turn")
        /\ calls[i].op = "resolve_turn" /\ calls[i].returned /\ calls[i].cash_after <= 0 =>
              i = Len(calls) /\ pc = "done" /\ last.bankrupt

\* a game that ended in bankruptcy after its second turn
C10_Witness ==
    /\ pc = "done" /\ last.bankrupt
    /\ Len(calls) = 4
    /\ Player(sim).cash_musd <= 0


C12_AwardApplied ==
    au.phase = "out" =>
        \A k \in 1..Len(au.res.awards) :
            LET a == au.res.awards[k]
                t == au.tender
                ci == CHOOSE i \in 1..Len(au.cs) : au.cs[i].name = a.winner
                before == au.cs[ci].rigs
                after == au.res.cs[ci].rigs
                at == {i \in 1..Len(before) : before[i].id = a.rig_id}
            IN  /\ a.tender_id = t.id /\ a.region = t.spec.region /\ a.months = t.spec.months
                /\ \E i \in 1..Len(au.cs) : au.cs[i].name = a.winner
                /\ Cardinality(at) = 1
                /\ Len(au.res.cs) = Len(au.cs)
                /\ \A c \in 1..Len(au.cs) :
                      /\ au.res.cs[c].name = au.cs[c].name
                      /\ au.res.cs[c].cash_musd = au.cs[c].cash_musd
                      /\ au.res.cs[c].debt_musd = au.cs[c].debt_musd
                      /\ au.res.cs[c].reputation = au.cs[c].reputation
                      /\ Len(au.res.cs[c].rigs) = Len(au.cs[c].rigs)
                      /\ \A i \in 1..Len(au.cs[c].rigs) :
                            (c # ci \/ i \notin at) => au.res.cs[c].rigs[i] = au.cs[c].rigs[i]
                /\ \A i \in at :
                      /\ after[i].on_contract_months_left = t.spec.months
                      /\ after[i].contract_dayrate = a.dayrate_k
                      /\ after[i].state = "ACTIVE"
                      /\ after[i].contract_id = t.id
                      /\ \A f \in DOMAIN before[i] \ {"on_contract_months_left",
                                                       "contract_dayrate", "state",
                                                       "contract_id"} :
                            after[i][f] = before[i][f]

\* the player's stacked rig wins below the ceiling and is put to work
C12_Witness ==
    /\ au.phase = "out"
    /\ Len(au.res.awards) = 1
    /\ au.res.awards[1].winner = PlayerName
    /\ au.res.awards[1].dayrate_k < au.tender.spec.max_dayrate
    /\ au.cs[1].rigs[1].state = "WARM"
    /\ au.res.cs[1].rigs[1].state = "ACTIVE"
    /\ au.res.cs[1].rigs[1].contract_id = au.tender.id

\* amounts by which a day-rate is lowered or raised
C13Steps == {1, 15, 50}

\* C13: among the bids gathered for a tender, lowering the winner's day-rate by any
\* amount leaves that bid the winner, and raising a losing bid's day-rate so that its
\* score is above the winner's leaves the winner unchanged.
C13_WinnerMonotone ==
    LET cs == au.cs
        bids == au.bids
        w == PickWinner(cs, bids)
    IN  bids # <<>> =>
            /\ \A d \in C13Steps :
                  PickWinner(cs, [bids EXCEPT ![w].dayrate = @ - d]) = w
            /\ \A j \in (1..Len(bids)) \ {w} : \A d \in C13Steps :
                  LET raised == [bids EXCEPT ![j].dayrate = @ + d]
                  IN  Score(cs, raised[j]) > Score(cs, bids[w]) =>
                          PickWinner(cs, raised) = w

\* three bids were scored and the winner was not the first gathered
C13_Witness ==
    /\ au.phase = "out"
    /\ Len(au.res.awards) = 1
    /\ LET bids == au.bids
       IN  /\ Len(bids) = 3
           /\ PickWinner(au.cs, bids) > 1
           /\ au.res.awards[1].winner = bids[PickWinner(au.cs, bids)].company_name

\* C14: in every state of a game every rostered rig with transit_months_left > 0 has a
\* target_region and is not available, and every rostered rig with
\* transit_months_left = 0 has no target_region; transit_months_left is never negative.
C14_TransitFieldsConsistent ==
    \A c \in 1..Len(sim.all_companies) : \A i \in 1..Len(sim.all_companies[c].rigs) :
        LET r == sim.all_companies[c].rigs[i]
        IN  /\ r.transit_months_left >= 0
            /\ r.transit_months_left > 0 =>
                   /\ r.target_region # NoRegion
                   /\ r.target_region \in SeqToSet(Regions)
                   /\ ~IsAvailable(r)
            /\ r.transit_months_left = 0 => r.target_region = NoRegion

\* a rig on its way after a mobilize command, and the same rig arrived
C14_Witness ==
    /\ last.op = "mobilize_rig" /\ last.ok
    /\ \E i \in 1..Len(Player(sim).rigs) :
          /\ Player(sim).rigs[i].transit_months_left = 1
          /\ Player(sim).rigs[i].target_region = "GOM"
          /\ Player(sim).rigs[i].region = "NORTH_SEA"

\* C15: mobilize_rig succeeds only for an available rig (ACTIVE, not under contract, not
\* in transit) whose region differs from the target, and only with cash >= 2.5; a
\* success deducts exactly 2.5 and sets transit_months_left = 1 and target_region; for
\* a rig that is stacked, under contract or already in transit the call is rejected
\* and changes nothing.
C15_MobilizeOnlyAvailable ==
    \A i \in 1..Len(Player(sim).rigs) : \A reg \in SeqToSet(Regions) :
        LET rig == Player(sim).rigs[i]
            p == PlayerIdx(sim)
            r == MobilizeRig(sim, rig.id, reg)
        IN  /\ r.ok =>
                  /\ IsAvailable(rig)
                  /\ rig.region # reg
                  /\ Player(sim).cash_musd >= 2500
                  /\ r.sim = [sim EXCEPT !.all_companies[p].cash_musd = @ - 2500,
                                         !.all_companies[p].rigs[i].transit_months_left = 1,
                                         !.all_companies[p].rigs[i].target_region = reg]
            /\ (\/ rig.state \in {"WARM", "COLD"}
                \/ rig.on_contract_months_left > 0
                \/ rig.transit_months_left > 0) => (~r.ok /\ r.sim = sim)

C17_ScrapPayoutAndRemoval ==
    LET \* ten thousand times the unrounded payout in $m
        Exact(rtype, cond) ==
            (IF rtype = "DRILLSHIP" THEN 80 ELSE IF rtype = "SEMI" THEN 50 ELSE 25)
            * (400 + 6 * cond)
        \* the payout, in $k, is a whole number of tenths of $m nearest to it
        Rounded(pay, rtype, cond) ==
            /\ pay % 100 = 0
            /\ 2 * Abs(10 * pay - Exact(rtype, cond)) <= 1000
        p == PlayerIdx(sim)
    IN  \* the payout as a function of type and condition (evaluated once, at the start)
        /\ pc = "start" =>
              /\ \A rtype \in SeqToSet(RigTypes) : \A cond \in 0..100 :
                    Rounded(ScrapPayout([rig_type |-> rtype, condition |-> cond]),
                            rtype, cond)
              /\ ScrapPayout([rig_type |-> "DRILLSHIP", condition |-> 80]) = 7000
        /\ \A rig_id \in RigIdChoices(sim) \cup scrapped \cup {NoId} :
              LET r == ScrapRig(sim, rig_id)
                  at == {i \in 1..Len(Player(sim).rigs) : Player(sim).rigs[i].id = rig_id}
              IN  IF at = {} \/ \E i \in at : Player(sim).rigs[i].on_contract_months_left > 0
                  THEN ~r.ok /\ r.sim = sim
                  ELSE \E i \in at :
                          LET rig == Player(sim).rigs[i]
                              left == Player(r.sim).rigs
                          IN  /\ r.ok
                              /\ Rounded(Player(r.sim).cash_musd - Player(sim).cash_musd,
                                         rig.rig_type, rig.condition)
                              /\ Len(left) = Len(Player(sim).rigs) - 1
                              /\ \A k \in 1..Len(left) :
                                    /\ left[k].id # rig_id
                                    /\ left[k] = Player(sim).rigs[IF k < i THEN k ELSE k + 1]
                              /\ r.sim = [sim EXCEPT
                                             !.all_companies[p].cash_musd =
                                                 Player(r.sim).cash_musd,
                                             !.all_companies[p].rigs = left]
        /\ (last.op = "scrap_rig" /\ last.ok) =>
              \E x \in scrapped : \A i \in 1..Len(Player(sim).rigs) :
                  Player(sim).rigs[i].id # x

\* the scrap command removed a rig the player had bought from the listing
C17_Witness ==
    /\ last.op = "scrap_rig" /\ last.ok
    /\ \E x \in scrapped : x >= 1000
    /\ Len(Player(sim).rigs) = 2

C19_AbstainsOnlyWithoutEligibleRig ==
    choice.phase = "chosen" =>
        LET c == choice.company
            p == choice.personality
            t == choice.tender
            eligible == {i \in 1..Len(c.rigs) :
                            /\ IsAvailable(c.rigs[i])
                            /\ c.rigs[i].state # "SCRAP"
                            /\ RigMatchesClass(c.rigs[i].rig_type, t.spec.rig_type)
                            /\ c.rigs[i].region = t.spec.region
                            /\ c.rigs[i].condition >= t.spec.min_condition}
        IN  /\ eligible = {} => ~choice.bid.some
            /\ eligible # {} =>
                  \/ choice.bid.some /\ \E i \in eligible : c.rigs[i].id = choice.bid.rig_id
                  \/ /\ ~choice.bid.some
                     /\ p.desperation < 50
                     /\ \E i \in eligible : ~AiPrice(c, p, t, c.rigs[i]).some

\* C20: a bid that choose_bid returns, or that its pricing returns for a rig of the
\* roster, has a day-rate of at least 1 and at most the tender's max_dayrate
C20_BidWithinBounds ==
    choice.phase \in {"chosen", "priced"} /\ choice.bid.some =>
        /\ 1 <= choice.bid.dayrate
        /\ choice.bid.dayrate <= choice.tender.spec.max_dayrate

\* the pricing returned a bid that the desperation cap had pulled below the break-even
C20_Witness ==
    /\ choice.phase = "priced"
    /\ choice.bid.some
    /\ choice.company.cash_musd < 15000
    /\ choice.personality.desperation > 60
    /\ choice.bid.dayrate <
          EstimateBreakEvenDayrateK(choice.company.rigs[choice.rig],
                                    choice.tender.spec.start_date.year)

C22_ValidateBidExact ==
    LET t == choice.tender
        Compatible(rig_type, class) ==
            \/ class = "JACKUP" /\ rig_type = "JACKUP"
            \/ class = "SEMI" /\ rig_type = "SEMI"
            \/ class = "DRILLSHIP" /\ rig_type = "DRILLSHIP"
            \/ class = "SEMI_OR_DRILLSHIP" /\ rig_type \in {"SEMI", "DRILLSHIP"}
        Eligible(r) ==
            /\ r.state = "ACTIVE"
            /\ r.on_contract_months_left = 0
            /\ r.transit_months_left = 0
            /\ Compatible(r.rig_type, t.spec.rig_type)
            /\ r.region = t.spec.region
            /\ r.condition >= t.spec.min_condition
        Named(c, b) == {r \in SeqToSet(c.rigs) : r.id = b.rig_id}
    IN  /\ choice.phase = "validated" =>
              /\ choice.ok <=> Eligible(Player(sim).rigs[choice.rig])
              /\ choice.ok <=> choice.msg = ""
        /\ choice.phase = "auto" /\ choice.bid.some =>
              /\ Named(Player(sim), choice.bid) # {}
              /\ \A r \in Named(Player(sim), choice.bid) : Eligible(r)
        /\ choice.phase \in {"validated", "auto"} =>
              \A k \in 1..Len(sim.all_companies) :
                 LET c == sim.all_companies[k]
                     b == ChooseBid(c, AiPersonalities(c.name), t)
                 IN  c.name # PlayerName /\ b.some =>
                        \A r \in Named(c, b) : r.condition >= t.spec.min_condition

\* a rig that is available, of the right type and in the tender's region is rejected
\* for its condition alone
C22_Witness ==
    /\ choice.phase = "validated"
    /\ ~choice.ok
    /\ choice.msg = "condition"
    /\ LET r == Player(sim).rigs[choice.rig]
       IN  /\ IsAvailable(r)
           /\ r.region = choice.tender.spec.region
           /\ r.condition < choice.tender.spec.min_condition

\* C23: of the player bids submitted for a tender, by bid commands or as tuples of the
\* list handed to resolve_turn, only the last one takes part in the auction: the list
\* of the command loop never holds two tuples of a tender, and the auction of the tender
\* goes as if that last tuple had been the only one submitted for it
C23_LastPlayerBidCounts ==
    /\ au.phase \in {"in", "tendered"} /\ au.src = "cli" =>
          \A i \in 1..Len(au.pbids), j \in 1..Len(au.pbids) :
             au.pbids[i][1] = au.pbids[j][1] => i = j
    /\ au.phase = "tendered" =>
          LET t == au.tender
              mine == {i \in 1..Len(au.sub) : au.sub[i][1] = t.id}
              lastb == au.sub[CHOOSE i \in mine : \A j \in mine : j <= i]
          IN  IF mine = {}
              THEN au.res.awards = <<>> /\ au.res.cs = au.cs
              ELSE /\ au.res = AwardTender(au.cs, t, <<lastb>>)
                   /\ \A k \in 1..Len(au.res.awards) :
                         au.res.awards[k].winner = PlayerName =>
                            /\ au.res.awards[k].rig_id = lastb[2]
                            /\ au.res.awards[k].dayrate_k = lastb[3]

\* two bids of different day-rates were submitted for the tender and it was awarded
C23_Witness ==
    /\ au.phase = "tendered"
    /\ Len(au.sub) = 2
    /\ au.sub[1][1] = au.tender.id /\ au.sub[2][1] = au.tender.id
    /\ au.sub[1][3] # au.sub[2][3]
    /\ Len(au.res.awards) = 1
    /\ au.res.awards[1].winner = PlayerName
    /\ au.res.awards[1].dayrate_k = au.sub[2][3]

\* C24: Sim.load raises, and returns no Sim, on a save that lacks rig_id_seq, the rigs
\* list, the cash, debt or reputation of a company, or a rig that a company refers to
C24_LoadFailsOnMissingField ==
    choice.phase = "loaded" /\ choice.damage.kind # "none" => choice.raised

\* C25: resolve_turn never faults, whatever the player bids are: a bid on a rig that has
\* left the roster or on a tender that is not open is passed over and the turn completes
C25_ResolveTurnNeverFaults ==
    /\ pc # "fault"
    /\ last.op = "resolve_turn" => last.ok

\* the tender ids in the awards of the k-th resolve_turn of the caller
RoundTenderIds(k) == {choice.rounds[k][i].tender_id : i \in 1..Len(choice.rounds[k])}

\* C26: a tender is consumed by resolution: no tender id appears in the awards of two
\* resolve_turn calls, also when resolve_turn is called again before the next prepare_turn
C26_TenderAwardedOnce ==
    choice.phase = "rt" =>
       \A j, k \in 1..Len(choice.rounds) : j < k => RoundTenderIds(j) \cap RoundTenderIds(k) = {}

\* the tenders the call of generate_tick under test returned
GtOut == SeqToSet(choice.out)

\* C27: every tender generate_tick produces has 30 <= min_dayrate < max_dayrate and
\* max_dayrate >= 40
C27_DayrateRange ==
    choice.phase = "ticked" =>
       \A t \in GtOut : /\ 30 <= t.spec.min_dayrate
                        /\ t.spec.min_dayrate < t.spec.max_dayrate
                        /\ t.spec.max_dayrate >= 40

\* a tick in a bust has put out a tender whose ceiling was lifted to 40 and whose floor
\* was lifted to 30
C27_Witness ==
    /\ choice.phase = "ticked"
    /\ \E t \in GtOut :
          /\ (BaseDayrateK(t.spec.rig_type) * choice.oil_factor) \div 100 < 40
          /\ t.spec.max_dayrate = 40
          /\ t.spec.min_dayrate = 30

\* the class the water depth asks for
ClassOfDepth(water_depth_m) ==
    IF water_depth_m <= 120 THEN "JACKUP"
    ELSE IF water_depth_m <= 500 THEN "SEMI"
    ELSE IF water_depth_m <= 1200 THEN "SEMI_OR_DRILLSHIP"
    ELSE "DRILLSHIP"

\* C28: no tender asks for a jack-up with dynamic positioning, and the required class
\* follows from the water depth alone: up to 120 m jack-up, up to 500 m semi, up to
\* 1200 m semi or drillship, deeper drillship
C28_ClassFromDepth ==
    choice.phase = "ticked" =>
       \A t \in GtOut :
          /\ ~(t.spec.rig_type = "JACKUP" /\ t.spec.positioning_required = "DP_REQUIRED")
          /\ t.spec.rig_type = ClassOfDepth(t.spec.water_depth_m)

\* a tick has put out a jack-up tender and a tender that requires dynamic positioning
C28_Witness ==
    /\ choice.phase = "ticked"
    /\ \E t \in GtOut : t.spec.rig_type = "JACKUP" /\ t.spec.positioning_required = "ANY"
    /\ \E t \in GtOut : t.spec.rig_type # "JACKUP" /\ t.spec.positioning_required = "DP_REQUIRED"

\* the ids of all tenders the prepare_turn calls of the caller returned, in order
RECURSIVE TickIds(_)
TickIds(k) == IF k = 0 THEN <<>> ELSE TickIds(k - 1) \o choice.ticks[k].ids

\* C29: a tick returns 0 to 3 tenders with the ids next_contract_id, next_contract_id + 1,
\* ... in order and the counter next_contract_id + their number; over a run, save and load
\* included, contract_id_seq never decreases and no two tenders share an id
C29_TenderIdsSequential ==
    choice.phase = "rt" =>
       /\ \A k \in 1..Len(choice.ticks) :
             LET t == choice.ticks[k]
             IN  /\ Len(t.ids) \in 0..3
                 /\ \A i \in 1..Len(t.ids) : t.ids[i] = t.before + i - 1
                 /\ t.after = t.before + Len(t.ids)
       /\ \A j, k \in 1..Len(choice.seqs) : j < k => choice.seqs[j].seq <= choice.seqs[k].seq
       /\ sim.contract_id_seq = choice.seqs[Len(choice.seqs)].seq
       /\ LET ids == TickIds(Len(choice.ticks))
          IN  \A j, k \in 1..Len(ids) : j < k => ids[j] # ids[k]

\* a month of three tenders, then a save and a load, then a month that adds tenders
C29_Witness ==
    /\ choice.phase = "rt"
    /\ Len(choice.ticks) = 2
    /\ Len(choice.ticks[1].ids) = 3
    /\ Len(choice.ticks[2].ids) > 0
    /\ Len(choice.seqs) = 4
    /\ choice.seqs[3].op = "load"

\* a prepare_turn has just returned: to one of the two drivers, or to another caller
JustPrepared ==
    \/ /\ pc = "loop"
       /\ driver \in {"cli", "run"}
       /\ last.op \in {"prepare_turn", "resolve_turn", "load"}
    \/ /\ pc \in {"rt", "mk"}
       /\ last.op = "prepare_turn"

\* the ids handed out before the prepare_turn that has just returned
IssuedBefore ==
    SeqToSet(SubSeq(issued, 1, Len(issued) - Len(sim.current_rigs_for_sale)))

\* the ids of the rigs in the rosters of all companies
RosterIdSet == SeqToSet(RosterIds(AllRigs(sim.all_companies)))

\* every listing is a COLD rig at 5.0 MUSD or more that is in no roster; the listing after
\* a prepare_turn is made of at most three rigs, none of them listed or owned before,
\* and no rig of an earlier listing can be bought
ListingIsOfThisTurn ==
    /\ \A i \in 1..Len(sim.current_rigs_for_sale) :
          LET fs == sim.current_rigs_for_sale[i]
          IN  /\ fs.rig.state = "COLD"
              /\ fs.price_musd >= 5000
              /\ fs.rig.id \notin RosterIdSet
    /\ JustPrepared =>
          /\ Len(sim.current_rigs_for_sale) <= 3
          /\ SeqToSet(ListingIds(sim.current_rigs_for_sale)) \cap IssuedBefore = {}
          /\ \A id \in IssuedBefore : ~BuyRig(sim, id).ok

\* a rig of the player's roster is still there after the step unless the step scrapped it
RosterKept ==
    last'.op # "load" =>
       \A id \in SeqToSet(RosterIds(Player(sim).rigs)) :
          id \in SeqToSet(RosterIds(Player(sim').rigs)) \/ id \in scrapped'

\* C30: after each prepare_turn the resale listing holds only the 0 to 3 rigs generated
\* in that call: unbought listings of earlier turns are gone and cannot be bought, every
\* listed rig is COLD, priced at 5.0 or more and in no roster, and a rig bought in an
\* earlier turn stays in the player's roster
C30_ListingReplacedEachTurn ==
    /\ []ListingIsOfThisTurn
    /\ [][RosterKept]_vars

\* the second month has begun with a new listing: a rig bought in the first month is in
\* the player's roster and a rig listed in the first month that was not bought is gone
C30_Witness ==
    /\ JustPrepared
    /\ pc = "mk"
    /\ sim.oil_market.month = 2
    /\ sim.current_rigs_for_sale # <<>>
    /\ \E id \in IssuedBefore : id >= 1000 /\ id \in SeqToSet(RosterIds(Player(sim).rigs))
    /\ \E id \in IssuedBefore : id >= 1000 /\ id \notin RosterIdSet /\ id \notin scrapped

\* the rig of the roster of the company named winner that has the id, as a set
RigOf(S, winner, rig_id) ==
    UNION {{r \in SeqToSet(S.all_companies[c].rigs) : r.id = rig_id} :
              c \in {c \in 1..Len(S.all_companies) : S.all_companies[c].name = winner}}

\* C31: a rig awarded a tender of d months is paid in d settlements in a row, the first
\* in the resolve_turn of the award: when that call returns the rig has d - 1 months of
\* this contract left, and a contract of one month is paid and released in the call
C31_AwardThenSettled ==
    (last.op = "resolve_turn" /\ last.ok) =>
       \A k \in 1..Len(last.awards) :
          LET a == last.awards[k]
          IN  \A r \in RigOf(sim, a.winner, a.rig_id) :
                 IF a.months = 1
                 THEN /\ r.on_contract_months_left = 0
                      /\ r.contract_dayrate = 0
                      /\ r.contract_id = NoId
                      /\ r.state = "ACTIVE"
                 ELSE /\ r.on_contract_months_left = a.months - 1
                      /\ r.contract_id = a.tender_id
                      /\ r.contract_dayrate = a.dayrate_k

\* what the claim says of buy_rig(rig_id) called in the state S
BuyRigAsClaimed(S, rig_id) ==
    LET r == BuyRig(S, rig_id)
        listed == {i \in 1..Len(S.current_rigs_for_sale) :
                      S.current_rigs_for_sale[i].rig.id = rig_id}
        payable == {i \in listed : Player(S).cash_musd >= S.current_rigs_for_sale[i].price_musd}
    IN  /\ r.ok = (payable # {})
        /\ ~r.ok => r.sim = S
        /\ r.ok =>
              \E i \in payable :
                 LET fs == S.current_rigs_for_sale[i]
                 IN  /\ Player(r.sim).cash_musd = Player(S).cash_musd - fs.price_musd
                     /\ Player(r.sim).rigs =
                            Append(Player(S).rigs, [fs.rig EXCEPT !.company_id = Player(S).id])
                     /\ rig_id \notin SeqToSet(ListingIds(r.sim.current_rigs_for_sale))
                     /\ Len(r.sim.current_rigs_for_sale) = Len(S.current_rigs_for_sale) - 1
                     /\ ~BuyRig(r.sim, rig_id).ok
                     /\ [r.sim EXCEPT !.all_companies = S.all_companies,
                                      !.current_rigs_for_sale = S.current_rigs_for_sale] = S

\* a buy_rig step of a caller: a purchase moves one rig from the listing to the roster
\* and takes cash, a rejection leaves the Sim as it was
BuyStep ==
    (last'.op = "buy_rig" /\ ncmd' = ncmd + 1) =>
       IF last'.ok
       THEN /\ Player(sim').cash_musd < Player(sim).cash_musd
            /\ Len(Player(sim').rigs) = Len(Player(sim).rigs) + 1
            /\ Len(sim'.current_rigs_for_sale) = Len(sim.current_rigs_for_sale) - 1
       ELSE sim' = sim

\* C32: buy_rig succeeds exactly when the rig is listed and the player's cash covers the
\* asking price; then the cash falls by the price, the rig joins the roster with the
\* player's company id and leaves the listing, so a second buy_rig of the id is rejected;
\* a rejected buy_rig changes nothing
C32_BuyRig ==
    /\ [](\A rig_id \in SeqToSet(issued) \cup {NoId} : BuyRigAsClaimed(sim, rig_id))
    /\ [][BuyStep]_vars

\* a rig was bought, and the other rig of the listing costs more than the cash left
C32_Witness ==
    /\ pc = "mk"
    /\ last.op = "buy_rig" /\ last.ok
    /\ \E i \in 1..Len(Player(sim).rigs) :
          Player(sim).rigs[i].id >= 1000 /\ Player(sim).rigs[i].company_id = Player(sim).id
    /\ \E i \in 1..Len(sim.current_rigs_for_sale) :
          sim.current_rigs_for_sale[i].price_musd > Player(sim).cash_musd

\* the oil demand of a region with sensitivity k (hundredths) when the multiplier is
\* computed from the price p
OilDemandFrom(k, p) == (k * OilMult(p)) \div 100

\* the steel demand when the multiplier is computed from the price p
SteelDemandFrom(p) == 2 * Max2(50, Min2(180, TruncDiv((p - 450) * 100, 500)))

\* C33: in both markets the demand multiplier of month m is computed from the price
\* recorded at month m - lag_months once lag_months prices are recorded, and from the
\* current price before; the buffer holds at most 36 prices and ends with the current one
C33_LaggedDemand ==
    (choice.phase = "mt" /\ sim.oil_market.month > 0) =>
       LET oil == sim.oil_market
           steel == sim.steel_market
           m == oil.month
       IN  /\ Len(oil.oil_history) <= 36 /\ Len(steel.steel_history) <= 36
           /\ oil.oil_history[Len(oil.oil_history)] = oil.oil_price
           /\ steel.steel_history[Len(steel.steel_history)] = steel.steel_price
           /\ m < oil.lag_months =>
                 oil.demand_north_sea = OilDemandFrom(150, oil.oil_price)
           /\ m < steel.lag_months =>
                 steel.demand_global = SteelDemandFrom(steel.steel_price)
           /\ m > oil.lag_months =>
                 /\ oil.demand_north_sea = OilDemandFrom(150, choice.oil_prices[m - oil.lag_months])
                 /\ oil.demand_gom = OilDemandFrom(220, choice.oil_prices[m - oil.lag_months])
           /\ m > steel.lag_months =>
                 steel.demand_global = SteelDemandFrom(choice.steel_prices[m - steel.lag_months])

\* C34: within one resolve_turn no rig is named in more than one award, so an award is
\* never applied to a rig that an earlier award of the call has put on a contract
C34_OneAwardPerRig ==
    last.op = "resolve_turn" =>
       \A j, k \in 1..Len(last.awards) :
          (j < k /\ last.awards[j].winner = last.awards[k].winner)
             => last.awards[j].rig_id # last.awards[k].rig_id

\* C35: the player's debt never exceeds the borrowing limit get_loan_info reports for
\* the rigs now in the roster
C35_DebtWithinLimit ==
    pc \in {"loop", "done"} => Player(sim).debt_musd <= GetLoanInfo(sim).max_debt

-----------------------------------------------------------------------------
\* C36: the player's debt is never negative: a take_loan that succeeded was handed a
\* positive amount within the borrowing room it found, a repay_loan that succeeded
\* paid min(amount, debt), a payment above neither the debt nor the cash it found,
\* and a repay_loan that found no debt was rejected
C36_DebtNeverNegative ==
    choice.phase = "ln" =>
        /\ ~FloatLt(Player(sim).debt_musd, 0)
        /\ (choice.op = "take_loan" /\ last.ok) =>
               /\ FloatGt(choice.amount, 0)
               /\ FloatLe(choice.amount, choice.available)
        /\ (choice.op = "repay_loan" /\ last.ok) =>
               LET paid == FloatSub(choice.debt, Player(sim).debt_musd)
               IN  /\ FloatEq(paid, PyMin(choice.amount, choice.debt))
                   /\ FloatGt(paid, 0)
                   /\ FloatLe(paid, choice.debt)
                   /\ FloatLe(paid, choice.cash)
        /\ (choice.op = "repay_loan" /\ choice.debt = 0) => ~last.ok

\* C37: a take_loan that succeeded raised cash and debt by its amount, a repay_loan
\* that succeeded lowered both by one payment, a rejected call changed neither, and
\* so cash minus debt is what it was when the game was made
C37_CashMinusDebtKept ==
    choice.phase = "ln" =>
        LET cash == Player(sim).cash_musd
            debt == Player(sim).debt_musd
        IN  /\ (choice.op = "take_loan" /\ last.ok) =>
                   /\ FloatEq(cash, FloatAdd(choice.cash, choice.amount))
                   /\ FloatEq(debt, FloatAdd(choice.debt, choice.amount))
            /\ (choice.op = "repay_loan" /\ last.ok) =>
                   /\ FloatLe(cash, choice.cash) /\ FloatLe(debt, choice.debt)
                   /\ FloatEq(FloatSub(choice.cash, cash), FloatSub(choice.debt, debt))
            /\ (choice.op # "none" /\ ~last.ok) =>
                   (cash = choice.cash /\ debt = choice.debt)
            /\ FloatEq(FloatSub(cash, debt), 55000)

\* C38: a player command that found cash at zero or above leaves cash at zero or above,
\* whether it succeeded or was rejected
C38_CommandsKeepCashNonNegative ==
    (choice.phase = "ln" /\ choice.op = "repay_loan" /\ FloatGe(choice.cash, 0))
        => FloatGe(Player(sim).cash_musd, 0)

-----------------------------------------------------------------------------
\* C39: for every company the monthly net that get_company_finances forecasts is the
\* change that _settle_month_cashflows makes to the cash of the company on the same
\* rigs and debt
C39_ForecastIsSettlement ==
    pc \in {"loop", "done"} =>
        \A i \in 1..Len(sim.all_companies) :
            LET c == sim.all_companies[i]
            IN  GetCompanyFinances(sim, c.name).net_musd_month
                    = SettleCompany(c, CurrentYear(sim)).cash_musd - c.cash_musd

-----------------------------------------------------------------------------
\* C40: a game loaded through the command line from a file that save wrote at the
\* prompt of a month stands, at its first prompt, in that same month: the markets
\* were not stepped again and the rig and tender id sequences are those of the file
C40_LoadResumesSavedTurn ==
    (last.op = "load" /\ pc = "loop" /\ savefile.by = "save") =>
        /\ sim.oil_market.month = savefile.d.time.month
        /\ sim.steel_market.month = savefile.d.time.month
        /\ sim.contract_id_seq = savefile.d.contract_id_seq

=============================================================================
